---- MODULE Spec2Model ----
(***************************************************************************)
(* Verification model of the vespera macro crate: the relation analyser    *)
(* and from_model generator (schema_macro/relation.rs, codegen.rs,         *)
(* from_model.rs) and the parameter classifier (parser/parameters.rs).     *)
(*                                                                         *)
(* Syntax trees are modelled structurally.  A type is a record             *)
(*   [wrap |-> outermost-first generic heads, mod |-> module segment in    *)
(*    front of the leaf, leaf |-> last identifier of the innermost path]   *)
(* so  Option<Box<user::Schema>>  is                                       *)
(*   [wrap |-> <<"Option","Box">>, mod |-> "user", leaf |-> "Schema"].     *)
(* A struct field is [name, ty, from, skip]: `from` is the value of the    *)
(* sea_orm(from = "...") attribute ("" when there is none) and `skip` the  *)
(* serde(skip) marker.  A definition text is [found, fields]; found=FALSE  *)
(* stands for a definition that is missing or does not parse.              *)
(***************************************************************************)
EXTENDS Naturals, Sequences, FiniteSets, TLC

VARIABLES
    registry,         \* module name -> definition text found by the file lookup
    source_module_path, \* module path of the struct being expanded
    field_mappings,   \* generator input: (new_ident, source_ident, wrapped, is_relation)
    relation_fields,  \* generator input: RelationFieldInfo list
    generated,        \* token stream of generate_from_model_with_relations, or NotGenerated
    run,              \* one execution of the generated from_model, or NotRun
    bridges,          \* module name -> generated from_model of that module's schema
    stack,            \* from_model invocations in progress (call stack of modules)
    conv_struct,      \* struct whose relation fields are being converted
    conv_out,         \* results of convert_relation_type_to_schema_with_info so far
    fn_arg,           \* function parameter under classification
    path_params,      \* placeholders of the route
    fn_out,           \* result of parse_function_parameter, or NotParsed
    schema_item,      \* struct or enum item whose schema is derived
    schema_out,       \* derived schema, or NotDerived
    subst_in,         \* arguments of substitute_type
    subst_out,        \* types returned by substitute_type so far
    storage,          \* SCHEMA_STORAGE: unset before first access, then the Vec
    lock,             \* holder of the mutex of SCHEMA_STORAGE, 0 when free
    expansions,       \* the derive expansions of the build, each with its position
    entity_path,      \* segments of the entity path of a relation and the module path
    schema_path_out   \* schema path computed for it, or <<>> before

varsGen   == <<source_module_path, field_mappings, relation_fields, generated, run>>
varsGraph == <<bridges, stack>>
varsRel   == <<conv_struct, conv_out>>
varsParam == <<fn_arg, path_params, fn_out>>
varsSchema == <<schema_item, schema_out>>
varsSubst == <<subst_in, subst_out>>
varsStorage == <<storage, lock, expansions>>
varsPath == <<entity_path, schema_path_out>>
vars == <<registry, varsGen, varsGraph, varsRel, varsParam, varsSchema, varsSubst, varsStorage,
          varsPath>>

----------------------------------------------------------------------------
(* Generic helpers *)

Range(s) == {s[i] : i \in 1..Len(s)}

RECURSIVE Concat(_)
Concat(ss) == IF ss = <<>> THEN <<>> ELSE Head(ss) \o Concat(Tail(ss))

MapSeq(Op(_), s) == [i \in 1..Len(s) |-> Op(s[i])]

\* position of the first element satisfying Test, 0 when there is none
FirstIndex(Test(_), s) ==
    IF \E i \in 1..Len(s) : Test(s[i])
    THEN CHOOSE i \in 1..Len(s) : Test(s[i]) /\ \A j \in 1..(i-1) : ~Test(s[j])
    ELSE 0

Min(a, b) == IF a <= b THEN a ELSE b

----------------------------------------------------------------------------
(* Syntax: types, fields, definitions *)

Ty(wrap, mod, leaf) == [wrap |-> wrap, mod |-> mod, leaf |-> leaf]
Field(name, ty, from, skip) == [name |-> name, ty |-> ty, from |-> from, skip |-> skip]
Def(fields) == [found |-> TRUE, fields |-> fields]
NoDef == [found |-> FALSE, fields |-> <<>>]

\* the normalised type text contains "<head><"
TextHasHead(ty, head) == head \in Range(ty.wrap)

\* the normalised type text contains "m::Schema", "m::Entity" or "<M>Schema",
\* M being m with its first letter in upper case (leaf "CapSchema" is that
\* identifier, written without a module segment)
TextMentionsModule(ty, m) ==
    /\ ty.mod = m
    /\ ty.leaf \in {"Schema", "Entity", "CapSchema"}

is_option_type(ty) ==
    IF "wrap" \in DOMAIN ty
    THEN ty.wrap # <<>> /\ Head(ty.wrap) = "Option"
    ELSE ty.t = "Path" /\ ty.segments # <<>> /\ ty.segments[Len(ty.segments)].ident = "Option"

is_seaorm_relation_type(ty) ==
    ty.wrap # <<>> /\ Head(ty.wrap) \in {"HasOne", "HasMany", "BelongsTo"}

extract_skip(field) == field.skip

\* Some(name) is the name itself, None is ""
extract_belongs_to_from_field(field) == field.from

is_field_optional_in_struct(struct_fields, field_name) ==
    LET i == FirstIndex(LAMBDA f : f.name = field_name, struct_fields)
    IN  IF i = 0 THEN FALSE ELSE is_option_type(struct_fields[i].ty)

----------------------------------------------------------------------------
(* relation.rs: RelationFieldInfo and convert_relation_type_to_schema_with_info *)

NoInline == [some |-> FALSE, name |-> "", included |-> <<>>]
InlineInfo(name, included) == [some |-> TRUE, name |-> name, included |-> included]

RelationFieldInfo(field_name, relation_type, schema_path, is_optional, inline_type_info) ==
    [field_name |-> field_name, relation_type |-> relation_type,
     schema_path |-> schema_path, is_optional |-> is_optional,
     inline_type_info |-> inline_type_info]

NoneConverted ==
    [some |-> FALSE, converted |-> "", info |-> RelationFieldInfo("", "", "", FALSE, NoInline)]
SomeConverted(converted, info) == [some |-> TRUE, converted |-> converted, info |-> info]

\* fk_field.as_ref().map(|f| is_field_optional_in_struct(parsed_struct, f)).unwrap_or(true)
FkAlwaysOptional(from_field, struct_fields) == TRUE
FkOptional(from_field, struct_fields) ==
    IF from_field = "" THEN TRUE ELSE is_field_optional_in_struct(struct_fields, from_field)

\* the schema path is the entity path with Entity replaced by Schema; the model
\* keeps the module that owns it
convert_relation_type_to_schema_with_info(field, struct_fields) ==
    IF field.ty.wrap = <<>> THEN NoneConverted
    ELSE LET ident_str == Head(field.ty.wrap)
             schema_path == field.ty.mod
             is_optional == FkOptional(extract_belongs_to_from_field(field), struct_fields)
         IN  CASE ident_str = "HasOne" ->
                    SomeConverted(IF is_optional THEN "Option<Box<Schema>>" ELSE "Box<Schema>",
                        RelationFieldInfo(field.name, "HasOne", schema_path, is_optional, NoInline))
               [] ident_str = "HasMany" ->
                    SomeConverted("Vec<Schema>",
                        RelationFieldInfo(field.name, "HasMany", schema_path, FALSE, NoInline))
               [] ident_str = "BelongsTo" ->
                    SomeConverted(IF is_optional THEN "Option<Box<Schema>>" ELSE "Box<Schema>",
                        RelationFieldInfo(field.name, "BelongsTo", schema_path, is_optional, NoInline))
               [] OTHER -> NoneConverted

----------------------------------------------------------------------------
(* relation.rs: cycle detection and inline construction *)

IsCircularTypeAnyModule(ty, source_module) ==
    /\ ~TextHasHead(ty, "HasMany")
    /\ (TextHasHead(ty, "HasOne") \/ TextHasHead(ty, "BelongsTo") \/ TextHasHead(ty, "Box"))
IsCircularType(ty, source_module) ==
    /\ ~TextHasHead(ty, "HasMany")
    /\ (TextHasHead(ty, "HasOne") \/ TextHasHead(ty, "BelongsTo") \/ TextHasHead(ty, "Box"))
    /\ TextMentionsModule(ty, source_module)

DetectNothing(source_module, related_def) == <<>>
detect_circular_fields(source_module, related_def) ==
    IF ~related_def.found THEN <<>>
    ELSE MapSeq(LAMBDA f : f.name,
                SelectSeq(related_def.fields, LAMBDA f : IsCircularType(f.ty, source_module)))

HasFkNever(model_def) == FALSE
has_fk_relations(model_def) ==
    /\ model_def.found
    /\ \E i \in 1..Len(model_def.fields) :
          \/ TextHasHead(model_def.fields[i].ty, "HasOne")
          \/ TextHasHead(model_def.fields[i].ty, "BelongsTo")

CircularAlwaysRequired(related_model_def, circular_field_name) == TRUE
is_circular_relation_required(related_model_def, circular_field_name) ==
    /\ related_model_def.found
    /\ LET fs == related_model_def.fields
           i  == FirstIndex(LAMBDA f : f.name = circular_field_name, fs)
       IN  /\ i # 0
           /\ (TextHasHead(fs[i].ty, "HasOne") \/ TextHasHead(fs[i].ty, "BelongsTo"))
           /\ extract_belongs_to_from_field(fs[i]) # ""
           /\ LET k == FirstIndex(LAMBDA f : f.name = extract_belongs_to_from_field(fs[i]), fs)
              IN  k # 0 /\ ~is_option_type(fs[k].ty)

\* value emitted for a relation field inside an inline construction
generate_default_for_relation_field(field, all_fields) ==
    IF TextHasHead(field.ty, "HasMany") THEN "EmptyVec"
    ELSE IF TextHasHead(field.ty, "HasOne") \/ TextHasHead(field.ty, "BelongsTo")
    THEN LET fk == extract_belongs_to_from_field(field)
             is_optional ==
                 IF fk = "" THEN TRUE
                 ELSE \E i \in 1..Len(all_fields) :
                          all_fields[i].name = fk /\ is_option_type(all_fields[i].ty)
         IN  IF is_optional THEN "None" ELSE "ParentStub"
    ELSE "Default"

\* a constructed value: c is the form, path the type that is built or called,
\* fields the field initialisers of a struct literal
Construct(c, path, fields) == [c |-> c, path |-> path, fields |-> fields]
Init_(name, val) == [name |-> name, val |-> val]

InlineStructDelegates(schema_path, related_schema_def, circular_fields) ==
    Construct("From", schema_path, <<>>)
generate_inline_struct_construction(schema_path, related_schema_def, circular_fields) ==
    IF ~related_schema_def.found THEN Construct("From", schema_path, <<>>)
    ELSE LET fs == related_schema_def.fields
             kept == SelectSeq(fs, LAMBDA f : ~extract_skip(f))
         IN  Construct("InlineStruct", schema_path,
                 MapSeq(LAMBDA f :
                     IF f.name \in Range(circular_fields) \/ is_seaorm_relation_type(f.ty)
                     THEN Init_(f.name, generate_default_for_relation_field(f, fs))
                     ELSE Init_(f.name, "Copy"),
                     kept))

InlineTypeKeepsRelations(inline_type_name, included_fields, related_model_def) ==
    IF ~related_model_def.found THEN Construct("DefaultValue", "", <<>>)
    ELSE Construct("InlineType", inline_type_name,
             MapSeq(LAMBDA f : Init_(f.name, "Copy"),
                    SelectSeq(related_model_def.fields,
                        LAMBDA f : ~extract_skip(f) /\ f.name \in Range(included_fields))))
generate_inline_type_construction(inline_type_name, included_fields, related_model_def) ==
    IF ~related_model_def.found THEN Construct("DefaultValue", "", <<>>)
    ELSE Construct("InlineType", inline_type_name,
             MapSeq(LAMBDA f : Init_(f.name, "Copy"),
                    SelectSeq(related_model_def.fields,
                        LAMBDA f : /\ ~extract_skip(f)
                                   /\ ~is_seaorm_relation_type(f.ty)
                                   /\ f.name \in Range(included_fields))))

----------------------------------------------------------------------------
(* codegen.rs / from_model.rs: generate_from_model_with_relations *)

\* file lookup of the Model that sits next to a Schema path; a path that is
\* not found gives the empty definition text
find_model_from_schema_path(schema_path) ==
    IF schema_path \in DOMAIN registry THEN registry[schema_path] ELSE NoDef

Mapping(new_ident, source_ident, wrapped, is_relation) ==
    [new_ident |-> new_ident, source_ident |-> source_ident,
     wrapped |-> wrapped, is_relation |-> is_relation]

SourceModule(module_path) ==
    IF module_path = <<>> THEN "" ELSE module_path[Len(module_path)]

FindRelation(rels, source_ident) == FirstIndex(LAMBDA r : r.field_name = source_ident, rels)

\* let <var> = model.find_related(<entity>).one(db) / .all(db); how = "" is the
\* empty token stream of an unknown relation kind
Load(var, entity, how) == [var |-> var, entity |-> entity, how |-> how]

relation_loads(rels) ==
    MapSeq(LAMBDA rel :
        CASE rel.relation_type \in {"HasOne", "BelongsTo"} -> Load(rel.field_name, rel.schema_path, "one")
          [] rel.relation_type = "HasMany" -> Load(rel.field_name, rel.schema_path, "all")
          [] OTHER -> Load(rel.field_name, rel.schema_path, ""),
        rels)

needs_parent_stub(rels, module_path) ==
    \E i \in 1..Len(rels) :
        /\ rels[i].relation_type = "HasMany"
        /\ ~rels[i].inline_type_info.some
        /\ LET model == find_model_from_schema_path(rels[i].schema_path)
               circular_fields == detect_circular_fields(SourceModule(module_path), model)
           IN  /\ model.found
               /\ \E k \in 1..Len(circular_fields) :
                      is_circular_relation_required(model, circular_fields[k])

\* one field initialiser of the generated struct literal:
\*   form "Field"         new: model.src
\*        "SomeField"     new: Some(model.src)
\*        "Default"       new: Default::default()
\*        "OptionMap"     new: src.map(|r| Box::new(<cons>))  (None stays None)
\*        "RequiredOrErr" new: Box::new(<cons> of src.ok_or_else(RecordNotFound)?)
\*        "Collect"       new: src.into_iter().map(|r| <cons>).collect()
\*        "EmptyVec" / "None"  (parent stub only)
Assign(name, form, source, cons) ==
    [name |-> name, form |-> form, source |-> source, cons |-> cons]
NoCons == Construct("", "", <<>>)

ParentStubPlainOnly(mappings, rels, module_path) ==
    IF ~needs_parent_stub(rels, module_path) THEN <<>>
    ELSE MapSeq(LAMBDA fm : Assign(fm.new_ident, "Field", fm.source_ident, NoCons),
                SelectSeq(mappings, LAMBDA fm : ~fm.is_relation))
parent_stub_fields(mappings, rels, module_path) ==
    IF ~needs_parent_stub(rels, module_path) THEN <<>>
    ELSE MapSeq(LAMBDA fm :
            IF fm.is_relation
            THEN LET i == FindRelation(rels, fm.source_ident)
                 IN  IF i = 0 THEN Assign(fm.new_ident, "Default", fm.source_ident, NoCons)
                     ELSE IF rels[i].relation_type = "HasMany"
                          THEN Assign(fm.new_ident, "EmptyVec", fm.source_ident, NoCons)
                          ELSE Assign(fm.new_ident, "None", fm.source_ident, NoCons)
            ELSE Assign(fm.new_ident, "Field", fm.source_ident, NoCons),
            mappings)

SingleFormAlwaysMap(rel) == "OptionMap"
SingleForm(rel) == IF rel.is_optional THEN "OptionMap" ELSE "RequiredOrErr"

RelationAssignment(fm, rel, module_path) ==
    LET schema_path == rel.schema_path
        related_def == find_model_from_schema_path(schema_path)
        circular_fields == detect_circular_fields(SourceModule(module_path), related_def)
        has_circular == circular_fields # <<>>
        single == rel.relation_type \in {"HasOne", "BelongsTo"}
        many == rel.relation_type = "HasMany"
    IN  IF rel.inline_type_info.some
        THEN LET inline_construct ==
                     generate_inline_type_construction(rel.inline_type_info.name,
                         rel.inline_type_info.included, related_def)
             IN  CASE single -> Assign(fm.new_ident, SingleForm(rel), fm.source_ident, inline_construct)
                   [] many -> Assign(fm.new_ident, "Collect", fm.source_ident, inline_construct)
                   [] OTHER -> Assign(fm.new_ident, "Default", fm.source_ident, NoCons)
        ELSE CASE single ->
                    IF has_circular
                    THEN Assign(fm.new_ident, SingleForm(rel), fm.source_ident,
                             generate_inline_struct_construction(schema_path, related_def, circular_fields))
                    ELSE IF has_fk_relations(related_def)
                    THEN Assign(fm.new_ident, SingleForm(rel), fm.source_ident,
                             Construct("FromModel", schema_path, <<>>))
                    ELSE Assign(fm.new_ident, SingleForm(rel), fm.source_ident,
                             Construct("From", schema_path, <<>>))
               [] many ->
                    IF has_circular
                    THEN Assign(fm.new_ident, "Collect", fm.source_ident,
                             generate_inline_struct_construction(schema_path, related_def, circular_fields))
                    ELSE IF has_fk_relations(related_def)
                    THEN Assign(fm.new_ident, "Collect", fm.source_ident,
                             generate_inline_struct_construction(schema_path, related_def, <<>>))
                    ELSE Assign(fm.new_ident, "Collect", fm.source_ident,
                             Construct("From", schema_path, <<>>))
               [] OTHER -> Assign(fm.new_ident, "Default", fm.source_ident, NoCons)

field_assignments(mappings, rels, module_path) ==
    MapSeq(LAMBDA fm :
        IF fm.is_relation
        THEN LET i == FindRelation(rels, fm.source_ident)
             IN  IF i = 0 THEN Assign(fm.new_ident, "Default", fm.source_ident, NoCons)
                 ELSE RelationAssignment(fm, rels[i], module_path)
        ELSE IF fm.wrapped THEN Assign(fm.new_ident, "SomeField", fm.source_ident, NoCons)
        ELSE Assign(fm.new_ident, "Field", fm.source_ident, NoCons),
        mappings)

\* the body of the emitted from_model: the loads, then the stub definition
\* (when has_stub), then Ok(Self { assignments })
generate_from_model_with_relations(mappings, rels, module_path) ==
    [loads |-> relation_loads(rels),
     has_stub |-> needs_parent_stub(rels, module_path),
     stub |-> parent_stub_fields(mappings, rels, module_path),
     assignments |-> field_assignments(mappings, rels, module_path)]

NotGenerated == [some |-> FALSE, loads |-> <<>>, has_stub |-> FALSE, stub |-> <<>>, assignments |-> <<>>]
Emitted(ts) == [some |-> TRUE, loads |-> ts.loads, has_stub |-> ts.has_stub,
                stub |-> ts.stub, assignments |-> ts.assignments]

\* the statements of the emitted body in the order of the quote! template:
\* #(#relation_loads)* #parent_stub_def Ok(Self { #(#field_assignments),* });
\* an empty token stream contributes no statement
StatementsStubFirst(ts) ==
    (IF ts.has_stub THEN <<[kind |-> "stub", fields |-> ts.stub]>> ELSE <<>>)
    \o MapSeq(LAMBDA l : [kind |-> "load", var |-> l.var, how |-> l.how], ts.loads)
    \o <<[kind |-> "ok", fields |-> ts.assignments]>>
Statements(ts) ==
    MapSeq(LAMBDA l : [kind |-> "load", var |-> l.var, how |-> l.how],
           SelectSeq(ts.loads, LAMBDA l : l.how # ""))
    \o (IF ts.has_stub THEN <<[kind |-> "stub", fields |-> ts.stub]>> ELSE <<>>)
    \o <<[kind |-> "ok", fields |-> ts.assignments]>>

----------------------------------------------------------------------------
(* Execution of an emitted from_model *)

\* loaded[var] is what the load of a relation returned: 0 rows or more ("one"
\* loads return at most one); nested is the outcome of the from_model calls the
\* body delegates to ("Ok" or "DbErr").  The result is the status returned
\* and, for Ok, how each field of Self was produced.
ConsValue(cons) ==
    CASE cons.c = "FromModel" -> "Delegated"
      [] cons.c = "From" -> "Converted"
      [] cons.c = "DefaultValue" -> "Defaulted"
      [] OTHER -> "Built"

\* outcome of one initialiser: <<status, value>>
EvalAssign(a, loaded, nested) ==
    LET n == IF a.source \in DOMAIN loaded THEN loaded[a.source] ELSE 0
        fails == a.cons.c = "FromModel" /\ n > 0 /\ nested = "DbErr"
    IN  CASE a.form = "Field" -> <<"Ok", "Copied">>
          [] a.form = "SomeField" -> <<"Ok", "Copied">>
          [] a.form = "Default" -> <<"Ok", "Defaulted">>
          [] a.form = "EmptyVec" -> <<"Ok", "Empty">>
          [] a.form = "None" -> <<"Ok", "None">>
          [] a.form = "OptionMap" ->
                IF n = 0 THEN <<"Ok", "None">>
                ELSE IF fails THEN <<"DbErr", "">> ELSE <<"Ok", ConsValue(a.cons)>>
          [] a.form = "RequiredOrErr" ->
                IF n = 0 THEN <<"RecordNotFound", "">>
                ELSE IF fails THEN <<"DbErr", "">> ELSE <<"Ok", ConsValue(a.cons)>>
          [] a.form = "Collect" ->
                IF n = 0 THEN <<"Ok", "Empty">>
                ELSE IF fails THEN <<"DbErr", "">> ELSE <<"Ok", ConsValue(a.cons)>>

\* the initialisers run in order and the first error is returned by `?`
Execute(ts, loaded, nested) ==
    LET outs == MapSeq(LAMBDA a : EvalAssign(a, loaded, nested), ts.assignments)
        bad == FirstIndex(LAMBDA o : o[1] # "Ok", outs)
    IN  IF bad # 0
        THEN [status |-> outs[bad][1], failed_at |-> bad, values |-> <<>>]
        ELSE [status |-> "Ok", failed_at |-> 0, values |-> MapSeq(LAMBDA o : o[2], outs)]

NotRun == [some |-> FALSE, loaded |-> [v \in {} |-> 0], nested |-> "", result |-> [status |-> "", failed_at |-> 0, values |-> <<>>]]

----------------------------------------------------------------------------
(* Inputs of the generator specification: one expansion in module memo whose
   relations point at module user *)

MaxExtraFields == 2   \* groups of fields a related definition has besides id
MaxRows == 1          \* rows a relation load returns

Plain(name, skip) == Field(name, Ty(<<>>, "", "i32"), "", skip)
Column(name, optional) ==
    Field(name, Ty(IF optional THEN <<"Option">> ELSE <<>>, "", "i32"), "", FALSE)
Relation(name, kind, target, from, skip) ==
    Field(name, Ty(<<kind>>, target, "Entity"), from, skip)

\* groups of fields the related Model (module user) may declare
FieldGroups ==
    { <<Plain("name", FALSE)>>,
      <<Plain("secret", TRUE)>>,
      <<Relation("memos", "HasMany", "memo", "", FALSE)>>,
      <<Column("memo_id", FALSE), Relation("memo", "BelongsTo", "memo", "memo_id", FALSE)>>,
      <<Column("memo_id", TRUE), Relation("memo", "BelongsTo", "memo", "memo_id", FALSE)>>,
      <<Relation("memo", "BelongsTo", "memo", "memo_id", FALSE)>>,
      <<Relation("memo", "HasOne", "memo", "", FALSE)>>,
      <<Column("memo_id", FALSE), Relation("memo", "BelongsTo", "memo", "memo_id", TRUE)>>,
      <<Column("tag_id", FALSE), Relation("tag", "BelongsTo", "tag", "tag_id", FALSE)>>,
      <<Relation("tag", "HasOne", "tag", "", FALSE)>>,
      <<Field("memo_box", Ty(<<"Option", "Box">>, "memo", "Schema"), "", FALSE)>> }

DistinctNames(fields) ==
    \A i, j \in 1..Len(fields) : i # j => fields[i].name # fields[j].name

GroupSeqs == UNION {[1..n -> FieldGroups] : n \in 0..MaxExtraFields}

RelatedDefs ==
    {NoDef} \cup
    { Def(<<Plain("id", FALSE)>> \o Concat(gs)) : gs \in
        {g \in GroupSeqs : DistinctNames(Concat(g))} }

TheInline == InlineInfo("MemoSchema_User", <<"id", "memo", "secret">>)

\* the relation of the expanded struct to module user
OwnerInfos ==
    { RelationFieldInfo("owner", k, "user", o, i) :
        k \in {"HasOne", "BelongsTo"}, o \in BOOLEAN, i \in {NoInline, TheInline} }
    \cup { RelationFieldInfo("owner", "HasMany", "user", FALSE, i) : i \in {NoInline, TheInline} }
    \cup { RelationFieldInfo("owner", "Unknown", "user", TRUE, i) : i \in {NoInline, TheInline} }

RelationLists ==
    { <<o>> : o \in OwnerInfos } \cup
    { <<o, RelationFieldInfo("others", "HasMany", "user", FALSE, NoInline)>> : o \in OwnerInfos }

MappingsFor(rels) ==
    <<Mapping("id", "id", FALSE, FALSE), Mapping("nick", "nick", TRUE, FALSE)>>
    \o MapSeq(LAMBDA r : Mapping(r.field_name, r.field_name, FALSE, TRUE), rels)
    \o <<Mapping("orphan", "orphan", FALSE, TRUE)>>

IdleGraph == bridges = [m \in {} |-> NotGenerated] /\ stack = <<>>
IdleRel   == conv_struct = <<>> /\ conv_out = <<>>
NoArg == [receiver |-> TRUE]
NotParsed == [done |-> FALSE, some |-> FALSE, params |-> <<>>]
IdleParam == fn_arg = NoArg /\ path_params = <<>> /\ fn_out = NotParsed
NoItem == [kind |-> ""]
NotDerived == [done |-> FALSE]
IdleSchema == schema_item = NoItem /\ schema_out = NotDerived
NoSubst == [some |-> FALSE]
Unset == [set |-> FALSE]
IdleSubst == subst_in = NoSubst /\ subst_out = <<>>
IdleStorage == storage = Unset /\ lock = 0 /\ expansions = <<>>
NoPath == [some |-> FALSE]
IdlePath == entity_path = NoPath /\ schema_path_out = <<>>
IdleGen   == /\ source_module_path = <<>> /\ field_mappings = <<>> /\ relation_fields = <<>>
             /\ generated = NotGenerated /\ run = NotRun

InitGen ==
    /\ registry \in {[m \in {"user"} |-> d] : d \in RelatedDefs}
    /\ source_module_path = <<"crate", "models", "memo">>
    /\ relation_fields \in RelationLists
    /\ field_mappings = MappingsFor(relation_fields)
    /\ generated = NotGenerated
    /\ run = NotRun
    /\ IdleGraph /\ IdleRel /\ IdleParam /\ IdleSchema /\ IdleSubst /\ IdleStorage /\ IdlePath

\* the derive expansion emits the from_model of the struct
Generate ==
    /\ ~generated.some
    /\ generated' = Emitted(generate_from_model_with_relations(
                        field_mappings, relation_fields, source_module_path))
    /\ UNCHANGED <<varsPath, varsSubst, varsStorage, varsSchema, registry, source_module_path, field_mappings, relation_fields, run,
                   varsGraph, varsRel, varsParam>>

LoadOutcomes(ts) ==
    LET real == {i \in 1..Len(ts.loads) : ts.loads[i].how # ""}
        vars_ == {ts.loads[i].var : i \in real}
        how(v) == ts.loads[CHOOSE i \in real : ts.loads[i].var = v].how
    IN  {f \in [vars_ -> 0..MaxRows] : \A v \in vars_ : how(v) = "one" => f[v] <= 1}

\* the service calls the emitted from_model on a model row
RunFromModel ==
    /\ generated.some /\ ~run.some
    /\ \E loaded \in LoadOutcomes(generated), nested \in {"Ok", "DbErr"} :
          run' = [some |-> TRUE, loaded |-> loaded, nested |-> nested,
                  result |-> Execute(generated, loaded, nested)]
    /\ UNCHANGED <<varsPath, varsSubst, varsStorage, varsSchema, registry, source_module_path, field_mappings, relation_fields, generated,
                   varsGraph, varsRel, varsParam>>

NextGen == Generate \/ RunFromModel

SpecGen == InitGen /\ [][NextGen]_vars

----------------------------------------------------------------------------
(* Properties of one generated from_model (SpecGen) *)

AssignIdx(name) == FirstIndex(LAMBDA fm : fm.source_ident = name, field_mappings)
AssignFor(rel) == generated.assignments[AssignIdx(rel.field_name)]
RelatedOf(rel) == IF rel.schema_path \in DOMAIN registry THEN registry[rel.schema_path] ELSE NoDef
KnownKinds == {"HasOne", "BelongsTo", "HasMany"}
SingleKinds == {"HasOne", "BelongsTo"}
Rels == {relation_fields[i] : i \in 1..Len(relation_fields)}
InitNames(cons) == {cons.fields[k].name : k \in 1..Len(cons.fields)}
InitVal(cons, name) == cons.fields[CHOOSE k \in 1..Len(cons.fields) : cons.fields[k].name = name].val
UsesParentStub(a) ==
    a.cons.c = "InlineStruct" /\ \E k \in 1..Len(a.cons.fields) : a.cons.fields[k].val = "ParentStub"
FieldsOf(def) == {def.fields[k] : k \in 1..Len(def.fields)}
RelationTyped(f) == f.ty.wrap # <<>> /\ Head(f.ty.wrap) \in KnownKinds
FkTyped(f) == "HasOne" \in Range(f.ty.wrap) \/ "BelongsTo" \in Range(f.ty.wrap)
CycleDetected(rel) == detect_circular_fields(SourceModule(source_module_path), RelatedOf(rel)) # <<>>
CircularNames(rel) == Range(detect_circular_fields(SourceModule(source_module_path), RelatedOf(rel)))

\* C3: an initialiser that reads __parent_stub__ occurs only in a body that
\* defines __parent_stub__ (the definition precedes the struct literal).
C3_StubDefinedWhereUsed ==
    generated.some =>
        ((\E i \in 1..Len(generated.assignments) : UsesParentStub(generated.assignments[i]))
            => generated.has_stub)

\* C4: a required HasOne/BelongsTo relation whose load returned no row makes
\* from_model return an error, RecordNotFound when this field is the first to
\* fail, whatever the construction strategy; an optional one whose load
\* returned no row yields None and raises no error.
C4_AbsentRequiredIsRecordNotFound ==
    run.some =>
        \A rel \in Rels :
            (rel.relation_type \in SingleKinds /\ run.loaded[rel.field_name] = 0) =>
                LET idx == AssignIdx(rel.field_name)
                IN  IF rel.is_optional
                    THEN /\ run.result.failed_at # idx
                         /\ run.result.status = "Ok" => run.result.values[idx] = "None"
                    ELSE /\ run.result.status # "Ok"
                         /\ run.result.failed_at <= idx
                         /\ run.result.failed_at = idx => run.result.status = "RecordNotFound"

C4_Witness ==
    /\ run.some
    /\ \E rel \in Rels :
          /\ rel.relation_type \in SingleKinds /\ ~rel.is_optional
          /\ run.loaded[rel.field_name] = 0
          /\ AssignFor(rel).cons.c = "FromModel"
          /\ run.result.status = "RecordNotFound"

\* C7 as stated: without projection and without detected cycle, a relation of
\* any kind uses From when the target has no HasOne/BelongsTo field and
\* from_model when it has one.
C7_DelegationByFk_AnyKind ==
    generated.some =>
        \A rel \in Rels :
            (rel.relation_type \in KnownKinds /\ ~rel.inline_type_info.some /\ ~CycleDetected(rel)) =>
                AssignFor(rel).cons =
                    Construct(IF \E f \in FieldsOf(RelatedOf(rel)) : FkTyped(f)
                              THEN "FromModel" ELSE "From", rel.schema_path, <<>>)

\* C7 amended: the rule holds for HasOne and BelongsTo; a HasMany relation uses
\* From when the target has no HasOne/BelongsTo field and otherwise builds the
\* target inline, never calling from_model.
C7_DelegationByFk ==
    generated.some =>
        \A rel \in Rels :
            (rel.relation_type \in KnownKinds /\ ~rel.inline_type_info.some /\ ~CycleDetected(rel)) =>
                LET target_fk == \E f \in FieldsOf(RelatedOf(rel)) : FkTyped(f)
                    cons == AssignFor(rel).cons
                IN  /\ ~target_fk => cons = Construct("From", rel.schema_path, <<>>)
                    /\ (target_fk /\ rel.relation_type \in SingleKinds) =>
                            cons = Construct("FromModel", rel.schema_path, <<>>)
                    /\ (target_fk /\ rel.relation_type = "HasMany") =>
                            cons.c = "InlineStruct" /\ cons.path = rel.schema_path

C7_Witness ==
    /\ generated.some
    /\ \E rel \in Rels :
          /\ rel.relation_type = "HasMany" /\ ~rel.inline_type_info.some /\ ~CycleDetected(rel)
          /\ AssignFor(rel).cons.c = "InlineStruct"
    /\ \E rel \in Rels :
          /\ rel.relation_type \in SingleKinds /\ ~rel.inline_type_info.some
          /\ AssignFor(rel).cons.c = "FromModel"

InlineDefaults == {"EmptyVec", "None", "Default", "ParentStub"}

\* C8 as stated: with a detected cycle and no projection the target is built
\* inline; every circular or relation-typed field gets a placeholder, every
\* skip-marked field is left out, every other field is copied.
C8_InlineBreaksCycle_AsStated ==
    generated.some =>
        \A rel \in Rels :
            (rel.relation_type \in KnownKinds /\ ~rel.inline_type_info.some /\ CycleDetected(rel)) =>
                LET cons == AssignFor(rel).cons
                IN  /\ cons.c = "InlineStruct"
                    /\ \A f \in FieldsOf(RelatedOf(rel)) :
                          /\ (f.name \in CircularNames(rel) \/ RelationTyped(f)) =>
                                (f.name \in InitNames(cons) /\ InitVal(cons, f.name) \in InlineDefaults)
                          /\ f.skip => f.name \notin InitNames(cons)
                          /\ (~f.skip /\ f.name \notin CircularNames(rel) /\ ~RelationTyped(f)) =>
                                (f.name \in InitNames(cons) /\ InitVal(cons, f.name) = "Copy")

\* C8 amended: as stated, except that the skip marker wins: a skip-marked field
\* is left out even when it is circular or relation-typed, and the placeholder
\* rule covers the circular or relation-typed fields that are not skip-marked.
C8_InlineBreaksCycle ==
    generated.some =>
        \A rel \in Rels :
            (rel.relation_type \in KnownKinds /\ ~rel.inline_type_info.some /\ CycleDetected(rel)) =>
                LET cons == AssignFor(rel).cons
                IN  /\ cons.c = "InlineStruct"
                    /\ InitNames(cons) \subseteq {f.name : f \in FieldsOf(RelatedOf(rel))}
                    /\ \A f \in FieldsOf(RelatedOf(rel)) :
                          /\ f.skip => f.name \notin InitNames(cons)
                          /\ (~f.skip /\ (f.name \in CircularNames(rel) \/ RelationTyped(f))) =>
                                (f.name \in InitNames(cons) /\ InitVal(cons, f.name) \in InlineDefaults)
                          /\ (~f.skip /\ f.name \notin CircularNames(rel) /\ ~RelationTyped(f)) =>
                                (f.name \in InitNames(cons) /\ InitVal(cons, f.name) = "Copy")

C8_Witness ==
    /\ generated.some
    /\ \E rel \in Rels :
          /\ rel.relation_type \in KnownKinds /\ ~rel.inline_type_info.some /\ CycleDetected(rel)
          /\ \E f \in FieldsOf(RelatedOf(rel)) : f.skip /\ RelationTyped(f)
          /\ \E f \in FieldsOf(RelatedOf(rel)) : ~f.skip /\ ~RelationTyped(f) /\ f.name \in CircularNames(rel)
          /\ AssignFor(rel).cons.c = "InlineStruct"

----------------------------------------------------------------------------
(* Relation conversion (SpecRel): the derive walks the fields of one struct
   and converts each with convert_relation_type_to_schema_with_info *)

MaxTypedFields == 2   \* fields of the struct besides id and the key column

TypedFieldShapes ==
    { [wrap |-> w, from |-> f] :
        w \in { <<"HasOne">>, <<"BelongsTo">>, <<"HasMany">>, <<"Box">>,
                <<"Option", "Box">>, <<"Vec">>, <<>> },
        f \in {"", "user_id"} }

KeyColumns == { <<>>, <<Column("user_id", FALSE)>>, <<Column("user_id", TRUE)>> }

FieldName(i) == <<"rel1", "rel2", "rel3", "rel4">>[i]

ConvStructs ==
    { <<Plain("id", FALSE)>> \o key \o
      [i \in 1..Len(shapes) |->
          Field(FieldName(i),
                Ty(shapes[i].wrap, IF shapes[i].wrap = <<>> THEN "" ELSE "user",
                   IF shapes[i].wrap = <<>> THEN "String" ELSE "Entity"),
                shapes[i].from, FALSE)] :
      key \in KeyColumns,
      shapes \in UNION {[1..n -> TypedFieldShapes] : n \in 1..MaxTypedFields} }

InitRel ==
    /\ conv_struct \in ConvStructs
    /\ conv_out = <<>>
    /\ registry = [m \in {} |-> NoDef]
    /\ IdleGen /\ IdleGraph /\ IdleParam /\ IdleSchema /\ IdleSubst /\ IdleStorage /\ IdlePath

\* the next field of the struct is offered to the relation converter
ConvertField ==
    /\ Len(conv_out) < Len(conv_struct)
    /\ conv_out' = Append(conv_out,
            convert_relation_type_to_schema_with_info(conv_struct[Len(conv_out) + 1], conv_struct))
    /\ UNCHANGED <<varsPath, varsSubst, varsStorage, varsSchema, registry, conv_struct, varsGen, varsGraph, varsParam>>

NextRel == ConvertField

SpecRel == InitRel /\ [][NextRel]_vars

LastSegment(ty) == IF ty.wrap = <<>> THEN ty.leaf ELSE Head(ty.wrap)
NamedKey(f) == {g \in Range(conv_struct) : g.name = f.from}
KeyIsOption(g) == g.ty.wrap # <<>> /\ Head(g.ty.wrap) = "Option"

\* C5: a HasOne/BelongsTo relation whose attribute names a foreign-key field
\* that the struct does not declare is classified optional.
C5_UnlocatedKeyIsOptional ==
    \A i \in 1..Len(conv_out) :
        LET f == conv_struct[i]
        IN  (LastSegment(f.ty) \in SingleKinds /\ f.from # "" /\ NamedKey(f) = {}) =>
                /\ conv_out[i].some
                /\ conv_out[i].info.is_optional
                /\ conv_out[i].converted = "Option<Box<Schema>>"

\* C6: HasMany is never optional and becomes Vec<Schema>; HasOne/BelongsTo is
\* optional (Option<Box<Schema>>) without a named key or with a named key of
\* type Option<T>, required (Box<Schema>) with a named key that is present and
\* not Option<T>; the emitted type agrees with is_optional; any other last
\* segment yields no result.
C6_Optionality ==
    \A i \in 1..Len(conv_out) :
        LET f == conv_struct[i]
            r == conv_out[i]
            last == LastSegment(f.ty)
        IN  /\ last = "HasMany" =>
                  r.some /\ ~r.info.is_optional /\ r.converted = "Vec<Schema>"
                         /\ r.info.relation_type = "HasMany"
            /\ (last \in SingleKinds /\ (f.from = "" \/ \E g \in NamedKey(f) : KeyIsOption(g))) =>
                  r.some /\ r.info.is_optional /\ r.converted = "Option<Box<Schema>>"
            /\ (last \in SingleKinds /\ f.from # "" /\ \E g \in NamedKey(f) : ~KeyIsOption(g)) =>
                  r.some /\ ~r.info.is_optional /\ r.converted = "Box<Schema>"
            /\ (r.some /\ last \in SingleKinds) =>
                  /\ r.info.relation_type = last
                  /\ r.info.is_optional <=> (r.converted = "Option<Box<Schema>>")
                  /\ ~r.info.is_optional <=> (r.converted = "Box<Schema>")
            /\ last \notin KnownKinds => ~r.some

C6_Witness ==
    /\ \E i \in 1..Len(conv_out) :
          LastSegment(conv_struct[i].ty) = "BelongsTo" /\ conv_out[i].converted = "Box<Schema>"
    /\ \E i \in 1..Len(conv_out) :
          LastSegment(conv_struct[i].ty) = "HasOne" /\ conv_out[i].converted = "Option<Box<Schema>>"
          /\ conv_struct[i].from = ""

----------------------------------------------------------------------------
(* Entity graphs (SpecGraph): three Models linked by relations, the from_model
   of each is generated and then called *)

MaxEdges == 3   \* relation fields in the whole entity graph
MaxDepth == 4   \* nested from_model invocations that are followed

Mods == {"user", "memo", "tag"}
ModSeq == <<"user", "memo", "tag">>
KindSeq == <<"HasMany", "HasOne", "BelongsTo">>

Edge(owner, kind, target) == [owner |-> owner, kind |-> kind, target |-> target]
EdgeChoices == {Edge(o, k, t) : o \in Mods, k \in KnownKinds, t \in Mods}

\* HasMany<t::Entity> as "<t>s"; HasOne<t::Entity> without key as "<t>_one";
\* BelongsTo<t::Entity> as "<t>" with from = "<t>_id", a declared i32 column
EdgeFields(kind, target) ==
    CASE kind = "HasMany" -> <<Relation(target \o "s", "HasMany", target, "", FALSE)>>
      [] kind = "HasOne" -> <<Relation(target \o "_one", "HasOne", target, "", FALSE)>>
      [] kind = "BelongsTo" ->
            <<Column(target \o "_id", FALSE),
              Relation(target, "BelongsTo", target, target \o "_id", FALSE)>>

ModelOf(m, edges) ==
    Def(<<Plain("id", FALSE)>> \o
        Concat([i \in 1..9 |->
            LET k == KindSeq[((i - 1) \div 3) + 1]
                t == ModSeq[((i - 1) % 3) + 1]
            IN  IF Edge(m, k, t) \in edges THEN EdgeFields(k, t) ELSE <<>>]))

RECURSIVE EdgeSetsUpTo(_)
EdgeSetsUpTo(k) ==
    IF k = 0 THEN {{}}
    ELSE LET smaller == EdgeSetsUpTo(k - 1)
         IN  smaller \cup {es \cup {e} : es \in smaller, e \in EdgeChoices}
EdgeSets == EdgeSetsUpTo(MaxEdges)

\* what the derive hands to the generator for a Model: every field is mapped,
\* the relation fields are those the converter accepts
RelationFieldsOf(def) ==
    MapSeq(LAMBDA f : convert_relation_type_to_schema_with_info(f, def.fields).info,
           SelectSeq(def.fields,
               LAMBDA f : convert_relation_type_to_schema_with_info(f, def.fields).some))
MappingsOf(def) ==
    MapSeq(LAMBDA f : Mapping(f.name, f.name, FALSE,
                          convert_relation_type_to_schema_with_info(f, def.fields).some),
           SelectSeq(def.fields, LAMBDA f : ~extract_skip(f)))

ModulePath(m) == <<"crate", "models", m>>

InitGraph ==
    /\ registry \in {[m \in Mods |-> ModelOf(m, es)] : es \in EdgeSets}
    /\ bridges = [m \in Mods |-> NotGenerated]
    /\ stack = <<>>
    /\ IdleGen /\ IdleRel /\ IdleParam /\ IdleSchema /\ IdleSubst /\ IdleStorage /\ IdlePath

ModIndex(m) == CHOOSE i \in 1..Len(ModSeq) : ModSeq[i] = m

\* the derive expansion of module m emits its from_model; the modules of the
\* crate are expanded in their order of declaration
Expand(m) ==
    /\ ~bridges[m].some
    /\ \A i \in 1..Len(ModSeq) : i < ModIndex(m) => bridges[ModSeq[i]].some
    /\ bridges' = [bridges EXCEPT ![m] = Emitted(generate_from_model_with_relations(
                        MappingsOf(registry[m]), RelationFieldsOf(registry[m]), ModulePath(m)))]
    /\ UNCHANGED <<varsPath, varsSubst, varsStorage, varsSchema, registry, stack, varsGen, varsRel, varsParam>>

AllExpanded == \A m \in Mods : bridges[m].some

\* the service calls from_model of module m
Call(m) ==
    /\ AllExpanded /\ stack = <<>>
    /\ stack' = <<m>>
    /\ UNCHANGED <<varsPath, varsSubst, varsStorage, varsSchema, registry, bridges, varsGen, varsRel, varsParam>>

DelegatesTo(ts) ==
    {ts.assignments[i].cons.path : i \in {k \in 1..Len(ts.assignments) :
                                           ts.assignments[k].cons.c = "FromModel"}}

\* the running from_model reaches an initialiser that awaits the from_model of
\* a related schema, the related row being present
Delegate ==
    /\ stack # <<>> /\ Len(stack) < MaxDepth
    /\ \E t \in DelegatesTo(bridges[stack[Len(stack)]]) : stack' = Append(stack, t)
    /\ UNCHANGED <<varsPath, varsSubst, varsStorage, varsSchema, registry, bridges, varsGen, varsRel, varsParam>>

\* the innermost from_model returns
Return ==
    /\ stack # <<>>
    /\ stack' = SubSeq(stack, 1, Len(stack) - 1)
    /\ UNCHANGED <<varsPath, varsSubst, varsStorage, varsSchema, registry, bridges, varsGen, varsRel, varsParam>>

NextGraph == (\E m \in Mods : Expand(m)) \/ (\E m \in Mods : Call(m)) \/ Delegate \/ Return

SpecGraph == InitGraph /\ [][NextGraph]_vars

HasField(m, kind, target) ==
    \E f \in FieldsOf(registry[m]) : f.ty.wrap = <<kind>> /\ f.ty.mod = target
\* A has-many B and B belongs-to A through a declared, non-Option key
MutualPairs ==
    {p \in Mods \X Mods :
        /\ p[1] # p[2]
        /\ HasField(p[1], "HasMany", p[2])
        /\ \E f \in FieldsOf(registry[p[2]]) :
              /\ f.ty.wrap = <<"BelongsTo">> /\ f.ty.mod = p[1]
              /\ \E g \in FieldsOf(registry[p[2]]) : g.name = f.from /\ g.ty.wrap = <<>>}
ManyAssignment(a, b) ==
    bridges[a].assignments[CHOOSE i \in 1..Len(bridges[a].assignments) :
                               bridges[a].assignments[i].name = b \o "s"]
StubEntry(a, name) ==
    bridges[a].stub[CHOOSE i \in 1..Len(bridges[a].stub) : bridges[a].stub[i].name = name]
\* in A's from_model every B row is built inline with its back-reference set to
\* the parent stub, and the stub holds A's relation fields empty
BackReferenceIsStub(a, b) ==
    /\ ManyAssignment(a, b).cons.c = "InlineStruct"
    /\ InitVal(ManyAssignment(a, b).cons, a) = "ParentStub"
    /\ bridges[a].has_stub
    /\ StubEntry(a, b \o "s").form = "EmptyVec"
    /\ \A i \in 1..Len(bridges[a].stub) :
          bridges[a].stub[i].form \in {"Field", "EmptyVec", "None", "Default"}

\* C1 as stated: for A has-many B, B belongs-to A (required): A's from_model
\* never delegates to B's, B's never delegates to A's, and B's back-reference
\* built for A leaves out A's relation field to B.
C1_MutualPair_AsStated ==
    \A p \in MutualPairs :
        (bridges[p[1]].some /\ bridges[p[2]].some) =>
            /\ p[2] \notin DelegatesTo(bridges[p[1]])
            /\ p[1] \notin DelegatesTo(bridges[p[2]])
            /\ BackReferenceIsStub(p[1], p[2])

\* C1 amended: A's from_model never delegates to B's, so the two never call
\* each other in a cycle (B's may delegate to A's when A has a further
\* HasOne/BelongsTo field), and B's back-reference built for A is the parent
\* stub, whose relation field to B is empty.
C1_MutualPair ==
    \A p \in MutualPairs :
        (bridges[p[1]].some /\ bridges[p[2]].some) =>
            /\ p[2] \notin DelegatesTo(bridges[p[1]])
            /\ BackReferenceIsStub(p[1], p[2])
            /\ \A i \in 1..(Len(stack) - 1) : ~(stack[i] = p[1] /\ stack[i + 1] = p[2])

C1_Witness ==
    /\ \E p \in MutualPairs :
          /\ bridges[p[1]].some /\ bridges[p[2]].some
          /\ p[1] \in DelegatesTo(bridges[p[2]])
          /\ Len(stack) >= 2 /\ stack[1] = p[2] /\ stack[2] = p[1]

\* C2: no from_model is entered again while an invocation of it is still in
\* progress, i.e. the delegation between generated from_model bodies has no
\* cycle, also for cycles through three structures.
C2_NoDelegationCycle ==
    \A i, j \in 1..Len(stack) : i # j => stack[i] # stack[j]

----------------------------------------------------------------------------
(* Handler parameters (SpecParam): parse_function_parameter classifies one
   argument of a handler against the placeholders of its route *)

\* identifiers are sequences of characters
NameId      == <<"i", "d">>
NameUserId  == <<"u", "_", "i", "d">>
NameSlug    == <<"s", "l">>

\* syn::Type: a path of segments with optional angle-bracketed arguments, a
\* tuple, or a reference
Seg(ident, angle, args) == [ident |-> ident, angle |-> angle, args |-> args]
TypePath(segments) == [t |-> "Path", segments |-> segments, elems |-> <<>>]
TypeTuple(elems) == [t |-> "Tuple", segments |-> <<>>, elems |-> elems]
TypeReference == [t |-> "Reference", segments |-> <<>>, elems |-> <<>>]
Bare(ident) == TypePath(<<Seg(ident, FALSE, <<>>)>>)
Generic(prefix, ident, arg) ==
    TypePath([i \in 1..Len(prefix) |-> Seg(prefix[i], FALSE, <<>>)] \o <<Seg(ident, TRUE, <<arg>>)>>)
LastSeg(ty) == ty.segments[Len(ty.segments)]

\* syn::Pat
PatIdent(name) == [p |-> "Ident", name |-> name, elems |-> <<>>]
PatTupleStruct(elems) == [p |-> "TupleStruct", name |-> <<>>, elems |-> elems]
PatTuple(elems) == [p |-> "Tuple", name |-> <<>>, elems |-> elems]
PatWild == [p |-> "Wild", name |-> <<>>, elems |-> <<>>]

Typed(pat, ty) == [receiver |-> FALSE, pat |-> pat, ty |-> ty]

\* SchemaRef: a $ref to a named component or an inline schema
Ref(name) == [ref |-> TRUE, type |-> "", nullable |-> FALSE, of |-> name]
Inline(type, nullable, of) == [ref |-> FALSE, type |-> type, nullable |-> nullable, of |-> of]

Parameter(name, in, required, schema) ==
    [name |-> name, in |-> in, required |-> required, schema |-> schema]
NoParams == [done |-> TRUE, some |-> FALSE, params |-> <<>>]
SomeParams(ps) == [done |-> TRUE, some |-> TRUE, params |-> ps]

\* struct registry of the crate: name -> struct item
StructField(ident, rename, ty) == [ident |-> ident, rename |-> rename, ty |-> ty]
struct_definitions ==
    [n \in {"Pagination", "Filter", "FilterShort", "Empty", "Pair", "User"} |->
        CASE n = "Pagination" ->
                [rename_all |-> "camelCase", named |-> TRUE,
                 fields |-> <<StructField(NameId, <<>>, Bare("i32")),
                              StructField(NameUserId, <<>>, Generic(<<>>, "Option", Bare("i32"))),
                              StructField(NameSlug, <<"q">>, Bare("User"))>>]
          [] n = "Filter" ->
                [rename_all |-> "", named |-> TRUE,
                 fields |-> <<StructField(NameUserId, <<>>,
                                  Generic(<<"std", "option">>, "Option", Bare("i32"))),
                              StructField(NameSlug, <<>>, Bare("Ext")),
                              StructField(NameId, <<>>, Generic(<<>>, "Option", Bare("User")))>>]
          [] n = "FilterShort" ->
                [rename_all |-> "", named |-> TRUE,
                 fields |-> <<StructField(NameUserId, <<>>, Generic(<<>>, "Option", Bare("i32"))),
                              StructField(NameSlug, <<>>, Bare("Ext")),
                              StructField(NameId, <<>>, Generic(<<>>, "Option", Bare("User")))>>]
          [] n = "Empty" -> [rename_all |-> "", named |-> TRUE, fields |-> <<>>]
          [] n = "Pair" ->
                [rename_all |-> "", named |-> FALSE,
                 fields |-> <<StructField(<<>>, <<>>, Bare("i32")),
                              StructField(<<>>, <<>>, Bare("i32"))>>]
          [] n = "User" ->
                [rename_all |-> "", named |-> TRUE,
                 fields |-> <<StructField(NameId, <<>>, Bare("i32"))>>]]
known_schemas == {"Pagination", "Filter", "FilterShort", "Empty", "Pair", "User", "Ext"}

PrimitiveTypes == [n \in {"i32", "String", "bool"} |->
                     CASE n = "i32" -> "integer" [] n = "String" -> "string" [] n = "bool" -> "boolean"]
is_primitive_type(ty) ==
    ty.t = "Path" /\ Len(ty.segments) = 1 /\ ty.segments[1].ident \in DOMAIN PrimitiveTypes

RECURSIVE parse_type_to_schema_ref_with_schemas(_)
parse_type_to_schema_ref_with_schemas(ty) ==
    IF ty.t # "Path" \/ ty.segments = <<>> THEN Inline("object", FALSE, "")
    ELSE LET seg == LastSeg(ty)
         IN  CASE seg.ident \in DOMAIN PrimitiveTypes -> Inline(PrimitiveTypes[seg.ident], FALSE, "")
               [] seg.ident = "Option" /\ seg.angle /\ seg.args # <<>> ->
                    LET inner == parse_type_to_schema_ref_with_schemas(seg.args[1])
                    IN  IF inner.ref THEN inner ELSE [inner EXCEPT !.nullable = TRUE]
               [] seg.ident = "Vec" /\ seg.angle /\ seg.args # <<>> -> Inline("array", FALSE, "")
               [] seg.ident \in known_schemas -> Ref(seg.ident)
               [] OTHER -> Inline("object", FALSE, "")

Upper(c) == CASE c = "i" -> "I" [] c = "d" -> "D" [] c = "s" -> "S"
              [] c = "l" -> "L" [] c = "u" -> "U" [] c = "o" -> "O"
              [] c = "k" -> "K" [] c = "n" -> "N" [] OTHER -> c
Lower(c) == CASE c = "I" -> "i" [] c = "D" -> "d" [] c = "S" -> "s"
              [] c = "L" -> "l" [] c = "U" -> "u" [] c = "O" -> "o"
              [] c = "K" -> "k" [] c = "N" -> "n" [] OTHER -> c
RECURSIVE CamelCase(_, _)
CamelCase(name, up) ==
    IF name = <<>> THEN <<>>
    ELSE IF Head(name) = "_" THEN CamelCase(Tail(name), TRUE)
    ELSE <<IF up THEN Upper(Head(name)) ELSE Head(name)>> \o CamelCase(Tail(name), FALSE)
LowerFirst(name) == IF name = <<>> THEN <<>> ELSE <<Lower(Head(name))>> \o Tail(name)
RECURSIVE SnakeCase(_, _)
SnakeCase(name, first) ==
    IF name = <<>> THEN <<>>
    ELSE (IF ~first /\ Lower(Head(name)) # Head(name) THEN <<"_">> ELSE <<>>)
         \o <<Lower(Head(name))>> \o SnakeCase(Tail(name), FALSE)
rename_field(name, rename_all) ==
    CASE rename_all = "camelCase" -> LowerFirst(CamelCase(name, FALSE))
      [] rename_all = "snake_case" -> SnakeCase(name, TRUE)
      [] OTHER -> name

\* String::replace("_", "-")
Hyphenate(name) == [i \in 1..Len(name) |-> IF name[i] = "_" THEN "-" ELSE name[i]]

is_map_type(ty) ==
    ty.t = "Path" /\ ty.segments # <<>> /\ LastSeg(ty).ident \in {"HashMap", "BTreeMap"}

IsKnownTypeAlways(ty) == TRUE
RECURSIVE is_known_type(_)
is_known_type(ty) ==
    IF is_primitive_type(ty) THEN TRUE
    ELSE IF ty.t # "Path" \/ ty.segments = <<>> THEN FALSE
    ELSE LET seg == LastSeg(ty)
         IN  IF seg.ident \in DOMAIN struct_definitions \/ seg.ident \in known_schemas THEN TRUE
             ELSE IF seg.angle /\ seg.ident \in {"Vec", "Option"} /\ seg.args # <<>>
                  THEN is_known_type(seg.args[1])
                  ELSE FALSE

QueryFieldParameter(field, rename_all) ==
    LET field_name == IF field.rename # <<>> THEN field.rename
                      ELSE rename_field(field.ident, rename_all)
        is_optional == /\ field.ty.t = "Path" /\ field.ty.segments # <<>>
                       /\ field.ty.segments[1].ident = "Option"
        parsed == parse_type_to_schema_ref_with_schemas(field.ty)
        field_schema == IF parsed.ref /\ parsed.of \in DOMAIN struct_definitions
                        THEN Inline("object", FALSE, parsed.of) ELSE parsed
        final_schema == IF is_optional
                        THEN IF field_schema.ref THEN Inline("object", TRUE, "")
                             ELSE [field_schema EXCEPT !.nullable = TRUE]
                        ELSE IF field_schema.ref THEN Inline("object", FALSE, "")
                             ELSE field_schema
    IN  Parameter(field_name, "Query", ~is_optional, final_schema)

parse_query_struct_to_parameters(ty) ==
    IF ty.t # "Path" \/ ty.segments = <<>> THEN NoParams
    ELSE LET ident_str == LastSeg(ty).ident
         IN  IF ident_str \notin DOMAIN struct_definitions THEN NoParams
             ELSE LET item == struct_definitions[ident_str]
                      parameters == IF item.named
                                    THEN MapSeq(LAMBDA f : QueryFieldParameter(f, item.rename_all),
                                                item.fields)
                                    ELSE <<>>
                  IN  IF parameters # <<>> THEN SomeParams(parameters) ELSE NoParams


HasInner(seg) == seg.angle /\ seg.args # <<>>

\* lines 27-40: the binding name, or no name for any other pattern
ParamNameKnown(pat) ==
    \/ pat.p = "Ident"
    \/ pat.p = "TupleStruct" /\ Len(pat.elems) = 1 /\ pat.elems[1].p = "Ident"
ParamName(pat) == IF pat.p = "Ident" THEN pat.name ELSE pat.elems[1].name

\* lines 42-73
IsOptionTypedHeader(ty) ==
    /\ ty.t = "Path" /\ ty.segments # <<>>
    /\ ty.segments[1].ident = "Option" /\ HasInner(ty.segments[1])
    /\ ty.segments[1].args[1].t = "Path" /\ ty.segments[1].args[1].segments # <<>>
    /\ LastSeg(ty.segments[1].args[1]).ident = "TypedHeader"

\* lines 226-243
NameFallbackNever(param_name, ty, placeholders) == NoParams
NameFallback(param_name, ty, placeholders) ==
    IF param_name \in Range(placeholders)
    THEN SomeParams(<<Parameter(param_name, "Path", TRUE, parse_type_to_schema_ref_with_schemas(ty))>>)
    ELSE NoParams

\* lines 92-119
PathTupleParameters(elems, placeholders) ==
    [i \in 1..Min(Len(elems), Len(placeholders)) |->
        Parameter(placeholders[i], "Path", TRUE, parse_type_to_schema_ref_with_schemas(elems[i]))]

\* lines 123-128
PathSingleName(placeholders, param_name) ==
    IF Len(placeholders) = 1 THEN placeholders[1] ELSE param_name

parse_function_parameter(arg, placeholders) ==
    IF arg.receiver THEN NoParams
    ELSE IF ~ParamNameKnown(arg.pat) THEN NoParams
    ELSE LET param_name == ParamName(arg.pat)
             ty == arg.ty
             fallback == NameFallback(param_name, ty, placeholders)
         IN  IF IsOptionTypedHeader(ty)
             THEN SomeParams(<<Parameter(Hyphenate(param_name), "Header", FALSE,
                                         Inline("string", FALSE, ""))>>)
             ELSE IF ty.t # "Path" \/ ty.segments = <<>> THEN fallback
             ELSE LET segment == LastSeg(ty)
                      inner_ty == segment.args[1]
                  IN  CASE segment.ident = "Path" ->
                            IF ~HasInner(segment) THEN fallback
                            ELSE IF inner_ty.t = "Tuple"
                            THEN LET parameters == PathTupleParameters(inner_ty.elems, placeholders)
                                 IN  IF parameters # <<>> THEN SomeParams(parameters) ELSE fallback
                            ELSE SomeParams(<<Parameter(PathSingleName(placeholders, param_name),
                                    "Path", TRUE, parse_type_to_schema_ref_with_schemas(inner_ty))>>)
                        [] segment.ident = "Query" ->
                            IF ~HasInner(segment) THEN fallback
                            ELSE IF is_map_type(inner_ty) THEN NoParams
                            ELSE IF parse_query_struct_to_parameters(inner_ty).some
                            THEN parse_query_struct_to_parameters(inner_ty)
                            ELSE IF ~is_known_type(inner_ty) THEN NoParams
                            ELSE SomeParams(<<Parameter(param_name, "Query", TRUE,
                                    parse_type_to_schema_ref_with_schemas(inner_ty))>>)
                        [] segment.ident = "Header" ->
                            IF ~HasInner(segment) THEN fallback
                            ELSE SomeParams(<<Parameter(param_name, "Header", TRUE,
                                    parse_type_to_schema_ref_with_schemas(inner_ty))>>)
                        [] segment.ident = "TypedHeader" ->
                            SomeParams(<<Parameter(Hyphenate(param_name), "Header", TRUE,
                                                   Inline("string", FALSE, ""))>>)
                        [] segment.ident = "Json" -> NoParams
                        [] OTHER -> fallback

MaxTuple == 3          \* elements of the tuple inside Path<(..)>
MaxPlaceholders == 3   \* placeholders of the route

BindingNames == {NameId, NameUserId, NameSlug}
TupleElemTypes == {Bare("i32"), Bare("String")}
TupleTypes == {TypeTuple(es) : es \in UNION {[1..k -> TupleElemTypes] : k \in 0..MaxTuple}}
InnerTypes ==
    TupleTypes \cup
    { Bare("i32"), Bare("User"), Bare("Pagination"), Bare("Empty"), Bare("Unknown"),
      Bare("Filter"), Bare("FilterShort"), Bare("Pair"), Bare("Ext"), Generic(<<>>, "Option", Bare("Unknown")),
      Generic(<<>>, "Vec", Bare("i32")), Generic(<<"std", "collections">>, "HashMap", Bare("String")) }
Prefixes == { <<>>, <<"axum", "extract">> }
ArgTypes ==
    { Generic(pre, ext, inner) :
        pre \in Prefixes, ext \in {"Path", "Query", "Header", "TypedHeader", "Json"},
        inner \in InnerTypes }
    \cup { Generic(pre, "Option", Generic(pre2, "TypedHeader", Bare(t))) :
             pre \in {<<>>, <<"std", "option">>}, pre2 \in Prefixes, t \in {"String", "Unknown"} }
    \cup { Bare("Path"), Bare("i32"), TypeReference, TypeTuple(<<Bare("i32")>>) }
ArgPatterns ==
    { PatIdent(n) : n \in BindingNames }
    \cup { PatTupleStruct(<<PatIdent(n)>>) : n \in BindingNames }
    \cup { PatTupleStruct(<<PatTuple(<<PatIdent(NameId), PatIdent(NameSlug)>>)>>),
           PatTupleStruct(<<PatIdent(NameId), PatIdent(NameSlug)>>),
           PatWild }
Placeholders == UNION {[1..n -> BindingNames] : n \in 0..MaxPlaceholders}

InitParam ==
    /\ fn_arg \in {NoArg} \cup {Typed(pat, ty) : pat \in ArgPatterns, ty \in ArgTypes}
    /\ path_params \in Placeholders
    /\ fn_out = NotParsed
    /\ registry = [m \in {} |-> NoDef]
    /\ IdleGen /\ IdleGraph /\ IdleRel /\ IdleSchema /\ IdleSubst /\ IdleStorage /\ IdlePath

\* the route collector parses one argument of the handler
Parse ==
    /\ ~fn_out.done
    /\ fn_out' = parse_function_parameter(fn_arg, path_params)
    /\ UNCHANGED <<varsPath, varsSubst, varsStorage, varsSchema, registry, fn_arg, path_params, varsGen, varsGraph, varsRel>>

NextParam == Parse

SpecParam == InitParam /\ [][NextParam]_vars

IsPathTuple(arg) ==
    /\ ~arg.receiver /\ arg.ty.t = "Path" /\ arg.ty.segments # <<>>
    /\ LastSeg(arg.ty).ident = "Path" /\ HasInner(LastSeg(arg.ty))
    /\ LastSeg(arg.ty).args[1].t = "Tuple"

\* C10: for an argument of type Path<(T1, ..., Tk)>, bound by any pattern, and
\* a route with N placeholders, exactly min(N, k) parameters are produced, the
\* i-th a Path parameter named after placeholder i with the schema of Ti.
C10_PathTuplePositional ==
    (fn_out.done /\ IsPathTuple(fn_arg)) =>
        LET elems == LastSeg(fn_arg.ty).args[1].elems
        IN  /\ Len(fn_out.params) = Min(Len(path_params), Len(elems))
            /\ \A i \in 1..Len(fn_out.params) :
                  fn_out.params[i] =
                      Parameter(path_params[i], "Path", TRUE,
                                parse_type_to_schema_ref_with_schemas(elems[i]))

IsPathSingle(arg) ==
    /\ ~arg.receiver /\ arg.ty.t = "Path" /\ arg.ty.segments # <<>>
    /\ LastSeg(arg.ty).ident = "Path" /\ HasInner(LastSeg(arg.ty))
    /\ LastSeg(arg.ty).args[1].t # "Tuple"

\* the rule of C11 for a pattern that binds a name
PathSingleRule ==
    fn_out.params =
        <<Parameter(IF Len(path_params) = 1 THEN path_params[1] ELSE ParamName(fn_arg.pat),
                    "Path", TRUE,
                    parse_type_to_schema_ref_with_schemas(LastSeg(fn_arg.ty).args[1]))>>

\* C11: an argument of type Path<T>, T not a tuple, yields exactly one Path
\* parameter with the schema of T, named after the placeholder when the route
\* has exactly one and after the binding otherwise; and every Path parameter
\* produced by any rule is required.
C11_PathSingle ==
    fn_out.done =>
        /\ IsPathSingle(fn_arg) =>
              /\ Len(fn_out.params) = 1
              /\ fn_out.params[1].in = "Path"
              /\ Len(path_params) = 1 => fn_out.params[1].name = path_params[1]
              /\ ParamNameKnown(fn_arg.pat) => PathSingleRule
        /\ \A i \in 1..Len(fn_out.params) :
              fn_out.params[i].in = "Path" => fn_out.params[i].required

\* the part of C11 that the code satisfies: patterns that bind a name
C11_PathSingle_NamedBinding ==
    fn_out.done =>
        /\ (IsPathSingle(fn_arg) /\ ParamNameKnown(fn_arg.pat)) => PathSingleRule
        /\ \A i \in 1..Len(fn_out.params) :
              fn_out.params[i].in = "Path" => fn_out.params[i].required

\* the struct that Query<T> names, when T is a registered struct
QueryStructName(arg) == LastSeg(LastSeg(arg.ty).args[1]).ident
IsQuery(arg) ==
    /\ ~arg.receiver /\ arg.ty.t = "Path" /\ arg.ty.segments # <<>>
    /\ LastSeg(arg.ty).ident = "Query" /\ HasInner(LastSeg(arg.ty))
IsQueryStruct(arg) ==
    /\ IsQuery(arg) /\ ParamNameKnown(arg.pat)
    /\ LastSeg(arg.ty).args[1].t = "Path" /\ LastSeg(arg.ty).args[1].segments # <<>>
    /\ QueryStructName(arg) \in DOMAIN struct_definitions
    /\ struct_definitions[QueryStructName(arg)].named
    /\ struct_definitions[QueryStructName(arg)].fields # <<>>
\* the type is Option<T>, written short or fully qualified
IsOptionOf(ty) ==
    ty.t = "Path" /\ ty.segments # <<>> /\ LastSeg(ty).ident = "Option" /\ HasInner(LastSeg(ty))
IsShortOption(ty) == IsOptionOf(ty) /\ Len(ty.segments) = 1

QueryFieldRule(item, f, param, optional) ==
    /\ param.in = "Query"
    /\ param.name = (IF f.rename # <<>> THEN f.rename
                     ELSE IF item.rename_all # "" THEN rename_field(f.ident, item.rename_all)
                     ELSE f.ident)
    /\ ~param.schema.ref
    /\ (f.ty.t = "Path" /\ Len(f.ty.segments) = 1 /\ f.ty.segments[1].ident \in DOMAIN struct_definitions)
          => param.schema.of = f.ty.segments[1].ident
    /\ IF optional THEN ~param.required /\ param.schema.nullable ELSE param.required

\* C12: Query<T> for a registered struct with named fields yields one Query
\* parameter per field in declaration order, named by the field's rename, else
\* the struct's rename_all policy, else the field name; each schema is inline,
\* a reference to a registered struct being replaced by that struct's schema;
\* an Option<T> field is not required and nullable, any other field required.
C12_QueryStructExpansion ==
    (fn_out.done /\ IsQueryStruct(fn_arg)) =>
        LET item == struct_definitions[QueryStructName(fn_arg)]
        IN  /\ Len(fn_out.params) = Len(item.fields)
            /\ \A i \in 1..Len(fn_out.params) :
                  QueryFieldRule(item, item.fields[i], fn_out.params[i], IsOptionOf(item.fields[i].ty))

\* the part of C12 that the code satisfies: Option is recognised in short form
C12_QueryStructExpansion_ShortOption ==
    (fn_out.done /\ IsQueryStruct(fn_arg)) =>
        LET item == struct_definitions[QueryStructName(fn_arg)]
        IN  /\ Len(fn_out.params) = Len(item.fields)
            /\ \A i \in 1..Len(fn_out.params) :
                  QueryFieldRule(item, item.fields[i], fn_out.params[i], IsShortOption(item.fields[i].ty))

QueryInner(arg) == LastSeg(arg.ty).args[1]
IsExpandableStruct(ty) ==
    /\ ty.t = "Path" /\ ty.segments # <<>>
    /\ LastSeg(ty).ident \in DOMAIN struct_definitions
    /\ struct_definitions[LastSeg(ty).ident].named
    /\ struct_definitions[LastSeg(ty).ident].fields # <<>>
\* a primitive, a registered schema or struct name, or a Vec or Option of one
RECURSIVE IsSingleQueryType(_)
IsSingleQueryType(ty) ==
    /\ ty.t = "Path" /\ ty.segments # <<>>
    /\ \/ Len(ty.segments) = 1 /\ LastSeg(ty).ident \in {"i32", "String", "bool"}
       \/ LastSeg(ty).ident \in (DOMAIN struct_definitions) \cup known_schemas
       \/ /\ LastSeg(ty).ident \in {"Vec", "Option"} /\ HasInner(LastSeg(ty))
          /\ IsSingleQueryType(LastSeg(ty).args[1])
IsMapNamed(ty) ==
    ty.t = "Path" /\ ty.segments # <<>> /\ LastSeg(ty).ident \in {"HashMap", "BTreeMap"}

LastIdent(ty) == IF ty.t = "Path" /\ ty.segments # <<>> THEN LastSeg(ty).ident ELSE ""
\* Option<TypedHeader<T>>, each wrapper written short or fully qualified
IsOptionalTypedHeader(ty) == IsOptionOf(ty) /\ LastIdent(LastSeg(ty).args[1]) = "TypedHeader"
IsHyphenated(out, name) ==
    /\ Len(out) = Len(name)
    /\ \A i \in 1..Len(name) : out[i] = (IF name[i] = "_" THEN "-" ELSE name[i])
PlainString == Inline("string", FALSE, "")
TypedHeaderRule(required) ==
    /\ Len(fn_out.params) = 1
    /\ IsHyphenated(fn_out.params[1].name, ParamName(fn_arg.pat))
    /\ fn_out.params[1].in = "Header"
    /\ fn_out.params[1].required = required
    /\ fn_out.params[1].schema = PlainString
HeaderRule ==
    fn_out.params = <<Parameter(ParamName(fn_arg.pat), "Header", TRUE,
                         parse_type_to_schema_ref_with_schemas(LastSeg(fn_arg.ty).args[1]))>>
NamedArg == fn_out.done /\ ~fn_arg.receiver /\ ParamNameKnown(fn_arg.pat)

\* C14: Option<TypedHeader<T>> yields one Header parameter with required =
\* false and TypedHeader<T> one with required = true, both named by the
\* binding with underscores turned into hyphens and with a plain string schema;
\* Header<T> yields one required Header parameter named by the binding with the
\* schema of T; the Option<TypedHeader<T>> rule precedes every other rule.
C14_Headers ==
    NamedArg =>
        /\ IsOptionalTypedHeader(fn_arg.ty) => TypedHeaderRule(FALSE)
        /\ LastIdent(fn_arg.ty) = "TypedHeader" => TypedHeaderRule(TRUE)
        /\ (LastIdent(fn_arg.ty) = "Header" /\ HasInner(LastSeg(fn_arg.ty))) => HeaderRule

\* the part of C14 that the code satisfies: the outer Option in short form
C14_Headers_ShortOption ==
    NamedArg =>
        /\ (IsOptionalTypedHeader(fn_arg.ty) /\ Len(fn_arg.ty.segments) = 1) => TypedHeaderRule(FALSE)
        /\ LastIdent(fn_arg.ty) = "TypedHeader" => TypedHeaderRule(TRUE)
        /\ (LastIdent(fn_arg.ty) = "Header" /\ HasInner(LastSeg(fn_arg.ty))) => HeaderRule

Extractors == {"Path", "Query", "Header", "TypedHeader", "Json"}
HasNoExtractor(arg) ==
    /\ ~arg.receiver
    /\ LastIdent(arg.ty) \notin Extractors
    /\ ~IsOptionalTypedHeader(arg.ty)
BindingMatchesPlaceholder(arg) ==
    ParamNameKnown(arg.pat) /\ \E i \in 1..Len(path_params) : path_params[i] = ParamName(arg.pat)

\* C15: Json<T> never yields a parameter, also when the binding name equals a
\* placeholder; an argument without recognised extractor yields exactly one
\* required Path parameter when its binding name equals a placeholder and
\* nothing otherwise; the outcome is always a list of parameters or nothing,
\* never an error.
C15_JsonAndFallback ==
    fn_out.done =>
        /\ (~fn_arg.receiver /\ LastIdent(fn_arg.ty) = "Json") => fn_out.params = <<>>
        /\ HasNoExtractor(fn_arg) =>
              IF BindingMatchesPlaceholder(fn_arg)
              THEN fn_out.params = <<Parameter(ParamName(fn_arg.pat), "Path", TRUE,
                                        parse_type_to_schema_ref_with_schemas(fn_arg.ty))>>
              ELSE fn_out.params = <<>>
        /\ fn_out.some \in BOOLEAN /\ (~fn_out.some => fn_out.params = <<>>)

C15_Witness ==
    /\ fn_out.done /\ HasNoExtractor(fn_arg) /\ fn_arg.ty = Bare("i32")
    /\ Len(path_params) = 3 /\ path_params[3] = ParamName(fn_arg.pat)
    /\ path_params[1] # path_params[3] /\ path_params[2] # path_params[3]
    /\ Len(fn_out.params) = 1 /\ fn_out.params[1].in = "Path"

\* the same type with its wrappers written in short form: the extractor, the
\* Option around a TypedHeader and the TypedHeader inside it lose their path
\* prefix, and Query<Filter> becomes Query<FilterShort>, the same struct with
\* its Option field written short
ShortSeg(ty, args) == TypePath(<<Seg(LastSeg(ty).ident, LastSeg(ty).angle, args)>>)
ShortForm(ty) ==
    IF ty.t # "Path" \/ ty.segments = <<>> THEN ty
    ELSE IF IsOptionalTypedHeader(ty)
    THEN ShortSeg(ty, <<ShortSeg(LastSeg(ty).args[1], LastSeg(LastSeg(ty).args[1]).args)>>)
    ELSE IF LastIdent(ty) = "Query" /\ HasInner(LastSeg(ty)) /\ LastSeg(ty).args[1] = Bare("Filter")
    THEN ShortSeg(ty, <<Bare("FilterShort")>>)
    ELSE IF LastIdent(ty) \in Extractors THEN ShortSeg(ty, LastSeg(ty).args)
    ELSE ty

\* C16: writing the wrappers of an argument's type (Path, Query, Header,
\* TypedHeader, Json, the Option around a TypedHeader or around a field of a
\* query struct) fully qualified instead of short yields the same parameters.
C16_QualifiedAsShort ==
    (fn_out.done /\ ~fn_arg.receiver) =>
        fn_out = parse_function_parameter(Typed(fn_arg.pat, ShortForm(fn_arg.ty)), path_params)

\* the part of C16 that the code satisfies: every wrapper but Option
C16_QualifiedAsShort_Extractors ==
    (fn_out.done /\ ~fn_arg.receiver
        /\ ~(IsOptionalTypedHeader(fn_arg.ty) /\ Len(fn_arg.ty.segments) > 1)
        /\ ~(LastIdent(fn_arg.ty) = "Query" /\ HasInner(LastSeg(fn_arg.ty))
               /\ LastSeg(fn_arg.ty).args[1] = Bare("Filter"))) =>
        fn_out = parse_function_parameter(Typed(fn_arg.pat, ShortForm(fn_arg.ty)), path_params)

----------------------------------------------------------------------------
(* Schema derivation (SpecSchema): generate_filtered_schema for a struct and
   parse_enum_to_schema for an enum *)

\* Option<T>: None is <<>>, Some(x) is <<x>>
None == <<>>
Some(x) == <<x>>

\* vespera_core::schema::Schema
EmptySchema ==
    [schema_type |-> None, description |-> None, enum |-> None, one_of |-> None,
     properties |-> None, required |-> None, prefix_items |-> None,
     min_items |-> None, max_items |-> None, items |-> None, all_of |-> None]
SchemaNew(schema_type) == [EmptySchema EXCEPT !.schema_type = Some(schema_type)]

\* a field with its serde attributes and doc comment; "" and <<>> stand for absent
SField(ident, ty, rename, skip, default, skip_if, doc) ==
    [ident |-> ident, ty |-> ty, rename |-> rename, skip |-> skip,
     default |-> default, skip_if |-> skip_if, doc |-> doc]
\* fields is "Unit", "Unnamed" or "Named"
Variant(ident, rename, rename_all, doc, fields, members) ==
    [ident |-> ident, rename |-> rename, rename_all |-> rename_all, doc |-> doc,
     fields |-> fields, members |-> members]
ItemStruct(rename_all, members, omit_set, pick_set) ==
    [kind |-> "struct", rename_all |-> rename_all, members |-> members,
     omit_set |-> omit_set, pick_set |-> pick_set]
ItemEnum(rename_all, doc, variants) ==
    [kind |-> "enum", rename_all |-> rename_all, doc |-> doc, variants |-> variants]

extract_field_rename(attrs) == attrs.rename
extract_rename_all(attrs) == attrs.rename_all
extract_doc_comment(attrs) == IF attrs.doc = "" THEN None ELSE Some(attrs.doc)
extract_default(attrs) == attrs.default
extract_skip_serializing_if(attrs) == attrs.skip_if
parse_type_to_schema_ref(ty) == parse_type_to_schema_ref_with_schemas(ty)

\* the name under which a field or variant is emitted
EmittedName(attrs, rename_all) ==
    IF extract_field_rename(attrs) # <<>> THEN extract_field_rename(attrs)
    ELSE rename_field(attrs.ident, rename_all)

\* BTreeMap built by inserting entries[i].key -> entries[i].value in order
MapOf(entries) ==
    [k \in {entries[i].key : i \in 1..Len(entries)} |->
        entries[CHOOSE i \in 1..Len(entries) :
                    /\ entries[i].key = k
                    /\ \A j \in (i + 1)..Len(entries) : entries[j].key # k].value]
NonEmpty(x, empty) == IF x = empty THEN None ELSE Some(x)

FilteredFieldKept(field, rename_all, omit_set, pick_set) ==
    LET field_name == EmittedName(field, rename_all)
    IN  /\ ~extract_skip(field)
        /\ ~(omit_set # {} /\ (field.ident \in omit_set \/ field_name \in omit_set))
        /\ ~(pick_set # {} /\ field.ident \notin pick_set /\ field_name \notin pick_set)
FilteredFieldRequired(field) ==
    ~is_option_type(field.ty) /\ ~extract_default(field) /\ ~extract_skip_serializing_if(field)

generate_filtered_schema(struct_item, omit_set, pick_set) ==
    LET rename_all == extract_rename_all(struct_item)
        kept == SelectSeq(struct_item.members,
                    LAMBDA f : FilteredFieldKept(f, rename_all, omit_set, pick_set))
        properties == MapOf(MapSeq(LAMBDA f : [key |-> EmittedName(f, rename_all),
                                                value |-> parse_type_to_schema_ref(f.ty)], kept))
        required_fields == MapSeq(LAMBDA f : EmittedName(f, rename_all),
                                  SelectSeq(kept, FilteredFieldRequired))
    IN  [SchemaNew("object") EXCEPT
            !.properties = NonEmpty(properties, MapOf(<<>>)),
            !.required = NonEmpty(required_fields, <<>>)]

\* SchemaRef::Inline(Box::new(schema)) for a full schema node
InlineSchema(schema) == [ref |-> FALSE, schema |-> schema]

\* lines 187-213: a documented field carries its description inline; a $ref is
\* wrapped into all_of
DocumentedAnnotates(schema_ref, doc) ==
    IF doc = None THEN schema_ref
    ELSE [f \in DOMAIN schema_ref \cup {"description"} |->
            IF f = "description" THEN doc ELSE schema_ref[f]]
Documented(schema_ref, doc) ==
    IF doc = None THEN schema_ref
    ELSE IF schema_ref.ref
    THEN InlineSchema([EmptySchema EXCEPT !.description = doc, !.all_of = Some(<<schema_ref>>)])
    ELSE [f \in DOMAIN schema_ref \cup {"description"} |->
            IF f = "description" THEN doc ELSE schema_ref[f]]

\* lines 216-226
VariantFieldOptional(field_type) ==
    field_type.t = "Path" /\ field_type.segments # <<>> /\ field_type.segments[1].ident = "Option"

\* lines 163-245: {"VariantName": {field1: type1, ...}}
VariantFieldNameEnumPolicy(field, variant, rename_all) == EmittedName(field, rename_all)
VariantFieldName(field, variant, rename_all) ==
    EmittedName(field, IF extract_rename_all(variant) # "" THEN extract_rename_all(variant)
                       ELSE rename_all)
InnerStructSchema(variant, rename_all) ==
    LET variant_properties ==
            MapOf(MapSeq(LAMBDA f : [key |-> VariantFieldName(f, variant, rename_all),
                                     value |-> Documented(parse_type_to_schema_ref(f.ty),
                                                          extract_doc_comment(f))],
                         variant.members))
        variant_required ==
            MapSeq(LAMBDA f : VariantFieldName(f, variant, rename_all),
                   SelectSeq(variant.members, LAMBDA f : ~VariantFieldOptional(f.ty)))
    IN  [SchemaNew("object") EXCEPT
            !.properties = NonEmpty(variant_properties, MapOf(<<>>)),
            !.required = NonEmpty(variant_required, <<>>)]

TupleAlwaysArray(variant) ==
    InlineSchema([SchemaNew("array") EXCEPT
            !.prefix_items = Some(MapSeq(LAMBDA f : parse_type_to_schema_ref(f.ty), variant.members)),
            !.min_items = Some(Len(variant.members)),
            !.max_items = Some(Len(variant.members))])
\* lines 96-162: {"VariantName": <type>} or {"VariantName": [<type1>, ...]}
TupleVariantValue(variant) ==
    IF Len(variant.members) = 1
    THEN parse_type_to_schema_ref(variant.members[1].ty)
    ELSE InlineSchema([SchemaNew("array") EXCEPT
            !.prefix_items = Some(MapSeq(LAMBDA f : parse_type_to_schema_ref(f.ty), variant.members)),
            !.min_items = Some(Len(variant.members)),
            !.max_items = Some(Len(variant.members)),
            !.items = None])

\* lines 78-262
VariantSchema(variant, rename_all) ==
    LET variant_key == EmittedName(variant, rename_all)
        variant_description == extract_doc_comment(variant)
        keyed(value) ==
            [SchemaNew("object") EXCEPT
                !.description = variant_description,
                !.properties = Some(MapOf(<<[key |-> variant_key, value |-> value]>>)),
                !.required = Some(<<variant_key>>)]
    IN  CASE variant.fields = "Unit" ->
                [SchemaNew("string") EXCEPT !.description = variant_description,
                                            !.enum = Some(<<variant_key>>)]
          [] variant.fields = "Unnamed" -> keyed(TupleVariantValue(variant))
          [] variant.fields = "Named" -> keyed(InlineSchema(InnerStructSchema(variant, rename_all)))

AllUnitNever(enum_item) == FALSE
AllUnitAlways(enum_item) == TRUE
AllUnit(enum_item) == \A i \in 1..Len(enum_item.variants) : enum_item.variants[i].fields = "Unit"

parse_enum_to_schema(enum_item) ==
    LET enum_description == extract_doc_comment(enum_item)
        rename_all == extract_rename_all(enum_item)
    IN  IF AllUnit(enum_item)
        THEN LET enum_values == MapSeq(LAMBDA v : EmittedName(v, rename_all), enum_item.variants)
             IN  [SchemaNew("string") EXCEPT !.description = enum_description,
                                             !.enum = NonEmpty(enum_values, <<>>)]
        ELSE LET one_of_schemas == MapSeq(LAMBDA v : InlineSchema(VariantSchema(v, rename_all)),
                                          enum_item.variants)
             IN  [SchemaNew("object") EXCEPT !.schema_type = None,
                                             !.description = enum_description,
                                             !.one_of = NonEmpty(one_of_schemas, <<>>)]


MaxSchemaFields == 2   \* named fields of a struct
MaxVariants == 2       \* variants of an enum

FieldIdents == <<NameUserId, NameId, NameSlug, <<"k">>>>
VariantIdents == << <<"O", "k">>, <<"N", "o", "D">>, <<"S", "u">>, <<"K">> >>
\* the items of a list take their idents by position
Positioned(shapes, idents) == [i \in 1..Len(shapes) |-> [shapes[i] EXCEPT !.ident = idents[i]]]

\* type and attributes of a field: plain, Option in short and qualified form,
\* skip, default, skip_serializing_if, documented $ref, renamed and documented,
\* renamed Option, undocumented $ref
FieldShapes ==
    << SField(<<>>, Bare("i32"), <<>>, FALSE, FALSE, FALSE, ""),
       SField(<<>>, Generic(<<>>, "Option", Bare("i32")), <<>>, FALSE, FALSE, FALSE, ""),
       SField(<<>>, Generic(<<"std", "option">>, "Option", Bare("i32")), <<>>, FALSE, FALSE, FALSE, ""),
       SField(<<>>, Bare("i32"), <<>>, TRUE, FALSE, FALSE, ""),
       SField(<<>>, Bare("i32"), <<>>, FALSE, TRUE, FALSE, ""),
       SField(<<>>, Bare("String"), <<>>, FALSE, FALSE, TRUE, ""),
       SField(<<>>, Bare("User"), <<>>, FALSE, FALSE, FALSE, "doc"),
       SField(<<>>, Bare("i32"), <<"q">>, FALSE, FALSE, FALSE, "doc"),
       SField(<<>>, Generic(<<>>, "Option", Bare("i32")), <<"q">>, FALSE, FALSE, FALSE, ""),
       SField(<<>>, Bare("User"), <<>>, FALSE, FALSE, FALSE, "") >>

\* structs of up to MaxSchemaFields named fields, with omit and pick sets
StructItems ==
    LET lists == {Positioned(shapes, FieldIdents) :
                    shapes \in UNION {[1..n -> Range(FieldShapes)] : n \in 0..MaxSchemaFields}}
        filters == { <<{}, {}>>, <<{NameId}, {}>>, <<{}, {NameId}>>, <<{<<"q">>}, {}>> }
    IN  {ItemStruct(ra, members, flt[1], flt[2]) :
            ra \in {"", "camelCase"}, members \in lists, flt \in filters}

\* enums of up to MaxVariants variants: unit, tuple and struct variants, each
\* plain, renamed or documented
EnumItems ==
    LET Unnamed(ty) == SField(<<>>, ty, <<>>, FALSE, FALSE, FALSE, "")
        tuples == { <<>>, <<Unnamed(Bare("i32"))>>, <<Unnamed(Bare("User"))>>,
                    <<Unnamed(Bare("i32")), Unnamed(Bare("String"))>>,
                    <<Unnamed(Bare("i32")), Unnamed(Bare("User")), Unnamed(Bare("String"))>> }
        named == { <<>> } \cup
                 { Positioned(<<FieldShapes[pr[1]], FieldShapes[pr[2]]>>, FieldIdents) :
                     pr \in { <<1, 2>>, <<4, 5>>, <<3, 7>>, <<8, 6>>, <<10, 7>> } }
        heads == { <<<<>>, "">>, <<<<"q">>, "">>, <<<<>>, "doc">> }
        variants ==
            { Variant(<<>>, h[1], "", h[2], "Unit", <<>>) : h \in heads }
            \cup { Variant(<<>>, h[1], "", h[2], "Unnamed", ms) : h \in heads, ms \in tuples }
            \cup { Variant(<<>>, h[1], "", h[2], "Named", ms) : h \in heads, ms \in named }
            \cup { Variant(<<>>, <<>>, "snake_case", "", "Named", ms) : ms \in named }
        enum_heads == { <<"", "">>, <<"camelCase", "doc">>, <<"snake_case", "">> }
    IN  {ItemEnum(h[1], h[2], Positioned(shapes, VariantIdents)) :
            h \in enum_heads,
            shapes \in UNION {[1..n -> variants] : n \in 0..MaxVariants}}

InitSchema ==
    /\ schema_item \in StructItems \cup EnumItems
    /\ schema_out = NotDerived
    /\ registry = [m \in {} |-> NoDef]
    /\ IdleGen /\ IdleGraph /\ IdleRel /\ IdleParam /\ IdleSubst /\ IdleStorage /\ IdlePath

\* the Schema derive (or schema_type!) expands for a struct
DeriveStruct ==
    /\ schema_item.kind = "struct" /\ ~schema_out.done
    /\ schema_out' = [done |-> TRUE,
                      schema |-> generate_filtered_schema(schema_item, schema_item.omit_set,
                                                          schema_item.pick_set)]
    /\ UNCHANGED <<varsPath, varsSubst, varsStorage, registry, schema_item, varsGen, varsGraph, varsRel, varsParam>>

\* the Schema derive expands for an enum
DeriveEnum ==
    /\ schema_item.kind = "enum" /\ ~schema_out.done
    /\ schema_out' = [done |-> TRUE, schema |-> parse_enum_to_schema(schema_item)]
    /\ UNCHANGED <<varsPath, varsSubst, varsStorage, registry, schema_item, varsGen, varsGraph, varsRel, varsParam>>

NextSchema == DeriveStruct \/ DeriveEnum

SpecSchema == InitSchema /\ [][NextSchema]_vars


\* ---- required and skipped fields of a derived object schema ----

Derived_ == schema_out.done
IsStructItem == schema_item.kind = "struct"
IsEnumItem == schema_item.kind = "enum"
Unwrap(opt, empty) == IF opt = None THEN empty ELSE opt[1]
PropertyKeys(schema) == DOMAIN Unwrap(schema.properties, MapOf(<<>>))
RequiredNames(schema) == Unwrap(schema.required, <<>>)

\* Option<T>, however the path to Option is written
IsOptionT(ty) == ty.t = "Path" /\ ty.segments # <<>> /\ LastSeg(ty).ident = "Option"
MustBeRequired(field) == ~IsOptionT(field.ty) /\ ~field.default /\ ~field.skip_if

\* fields: the named fields that pass the omit and pick filters, in order
ObjectFieldsRule(fields, name(_), schema) ==
    LET kept == SelectSeq(fields, LAMBDA f : ~f.skip)
    IN  /\ PropertyKeys(schema) = {name(kept[i]) : i \in 1..Len(kept)}
        /\ RequiredNames(schema) = MapSeq(name, SelectSeq(kept, MustBeRequired))
        /\ Range(RequiredNames(schema)) \subseteq PropertyKeys(schema)

PassesFilters(field, item) ==
    LET field_name == EmittedName(field, item.rename_all)
    IN  /\ item.omit_set # {} => field.ident \notin item.omit_set /\ field_name \notin item.omit_set
        /\ item.pick_set # {} => field.ident \in item.pick_set \/ field_name \in item.pick_set

StructFieldsRule ==
    ObjectFieldsRule(SelectSeq(schema_item.members, LAMBDA f : PassesFilters(f, schema_item)),
                     LAMBDA f : EmittedName(f, schema_item.rename_all),
                     schema_out.schema)

\* the object schema of the i-th variant, a struct variant of a one_of enum
VariantEntry(i) == schema_out.schema.one_of[1][i].schema
VariantValue(i) ==
    LET props == VariantEntry(i).properties[1]
    IN  props[CHOOSE k \in DOMAIN props : TRUE]
IsStructVariant(i) ==
    /\ IsEnumItem /\ ~AllUnit(schema_item)
    /\ i \in 1..Len(schema_item.variants) /\ schema_item.variants[i].fields = "Named"
StructVariantFieldsRule(i) ==
    ObjectFieldsRule(schema_item.variants[i].members,
                     LAMBDA f : VariantFieldName(f, schema_item.variants[i], schema_item.rename_all),
                     VariantValue(i).schema)

\* C17: in every object schema derived from named fields, of a struct and of a
\* struct variant of an enum alike, a field marked skip is left out, a kept field
\* is required iff it is not Option<T> and has neither a default nor a
\* conditional-skip annotation, and every required name is a key of properties.
C17_RequiredFields ==
    Derived_ =>
        /\ IsStructItem => StructFieldsRule
        /\ \A i \in 1..MaxVariants + 1 : IsStructVariant(i) => StructVariantFieldsRule(i)

\* C17, structs only: the rule holds for generate_filtered_schema
C17_RequiredFields_Struct == Derived_ /\ IsStructItem => StructFieldsRule

\* a struct with a skipped field, an Option field left out of required and a
\* field with a default has been derived
C17_Struct_Witness ==
    /\ Derived_ /\ IsStructItem
    /\ \E i, j \in 1..Len(schema_item.members) :
          /\ schema_item.members[i].skip
          /\ IsOptionT(schema_item.members[j].ty) \/ schema_item.members[j].default


\* ---- enums ----

NumVariants == Len(schema_item.variants)
IsUnitVariant(i) == schema_item.variants[i].fields = "Unit"
AllVariantsUnit == \A i \in 1..NumVariants : IsUnitVariant(i)
\* explicit rename, else the enum-level policy, else the name unchanged
ComputedName(i) ==
    LET v == schema_item.variants[i]
    IN  IF v.rename # <<>> THEN v.rename
        ELSE IF schema_item.rename_all # "" THEN rename_field(v.ident, schema_item.rename_all)
        ELSE v.ident

\* C18: an enum whose variants are all unit variants yields a schema of type
\* string with no one_of, whose enum list has one value per variant in
\* declaration order: the explicit rename, else rename_all applied to the
\* variant name, else the variant name.
C18_UnitEnum ==
    Derived_ /\ IsEnumItem /\ AllVariantsUnit =>
        /\ schema_out.schema.schema_type = Some("string")
        /\ schema_out.schema.one_of = None
        /\ Unwrap(schema_out.schema.enum, <<>>) = [i \in 1..NumVariants |-> ComputedName(i)]

\* a unit-only enum with a renamed variant and a variant converted by the
\* enum-level policy has been derived
C18_Witness ==
    /\ Derived_ /\ IsEnumItem /\ AllVariantsUnit /\ NumVariants >= 2
    /\ \E i, j \in 1..NumVariants :
          /\ schema_item.variants[i].rename # <<>>
          /\ schema_item.variants[j].rename = <<>>
          /\ ComputedName(j) # schema_item.variants[j].ident
          /\ schema_out.schema.enum[1][j] = ComputedName(j)

\* the names an entry of one_of is about
EntryNames(entry) ==
    IF entry.schema_type = Some("string") THEN Range(Unwrap(entry.enum, <<>>))
    ELSE PropertyKeys(entry)

\* C19: an enum with at least one non-unit variant yields a schema with no
\* top-level type and no enum list, whose one_of holds exactly one inline entry
\* per variant, unit variants included, in declaration order.
C19_OneOfEnum ==
    Derived_ /\ IsEnumItem /\ ~AllVariantsUnit =>
        /\ schema_out.schema.schema_type = None
        /\ schema_out.schema.enum = None
        /\ schema_out.schema.one_of # None
        /\ Len(schema_out.schema.one_of[1]) = NumVariants
        /\ \A i \in 1..NumVariants :
              /\ ~schema_out.schema.one_of[1][i].ref
              /\ EntryNames(VariantEntry(i)) = {ComputedName(i)}

\* an enum that mixes a unit variant with a later non-unit variant of another
\* name has been derived
C19_Witness ==
    /\ Derived_ /\ IsEnumItem /\ NumVariants >= 2
    /\ \E i, j \in 1..NumVariants :
          /\ i < j /\ IsUnitVariant(i) /\ ~IsUnitVariant(j)
          /\ ComputedName(i) # ComputedName(j)
          /\ schema_out.schema.one_of # None
          /\ VariantEntry(i).schema_type = Some("string")

FieldSchemas(i) ==
    MapSeq(LAMBDA f : parse_type_to_schema_ref(f.ty), schema_item.variants[i].members)
VariantArity(i) == Len(schema_item.variants[i].members)
IsTupleVariant(i) == schema_item.variants[i].fields = "Unnamed"

\* C20: in a one_of enum schema a unit variant is a string schema whose enum
\* list holds only the computed name; a tuple or struct variant is an object
\* with exactly one property, keyed by the computed name, which is its only
\* required name; a single-field tuple variant maps the key to the field's
\* schema, a tuple variant of n fields (n other than 1) to an array schema with
\* n prefix_items in field order, min_items = max_items = n and no items.
C20_VariantEntries ==
    Derived_ /\ IsEnumItem /\ ~AllVariantsUnit =>
        \A i \in 1..NumVariants :
            /\ IsUnitVariant(i) =>
                  /\ VariantEntry(i).schema_type = Some("string")
                  /\ VariantEntry(i).enum = Some(<<ComputedName(i)>>)
            /\ ~IsUnitVariant(i) =>
                  /\ VariantEntry(i).schema_type = Some("object")
                  /\ PropertyKeys(VariantEntry(i)) = {ComputedName(i)}
                  /\ VariantEntry(i).required = Some(<<ComputedName(i)>>)
            /\ IsTupleVariant(i) /\ VariantArity(i) = 1 =>
                  VariantValue(i) = FieldSchemas(i)[1]
            /\ IsTupleVariant(i) /\ VariantArity(i) # 1 =>
                  /\ ~VariantValue(i).ref
                  /\ VariantValue(i).schema.schema_type = Some("array")
                  /\ VariantValue(i).schema.prefix_items = Some(FieldSchemas(i))
                  /\ Len(VariantValue(i).schema.prefix_items[1]) = VariantArity(i)
                  /\ VariantValue(i).schema.min_items = Some(VariantArity(i))
                  /\ VariantValue(i).schema.max_items = Some(VariantArity(i))
                  /\ VariantValue(i).schema.items = None

\* an enum with a single-field tuple variant and a tuple variant of several
\* fields of different schemas has been derived
C20_Witness ==
    /\ Derived_ /\ IsEnumItem /\ ~AllVariantsUnit
    /\ \E i, j \in 1..NumVariants :
          /\ IsTupleVariant(i) /\ VariantArity(i) = 1
          /\ IsTupleVariant(j) /\ VariantArity(j) >= 2
          /\ FieldSchemas(j)[1] # FieldSchemas(j)[2]
          /\ VariantValue(j).schema.min_items = Some(VariantArity(j))


\* ---- names of the fields of a struct variant ----

ExpectedFieldName(i, field) ==
    LET v == schema_item.variants[i]
    IN  IF field.rename # <<>> THEN field.rename
        ELSE IF v.rename_all # "" THEN rename_field(field.ident, v.rename_all)
        ELSE IF schema_item.rename_all # "" THEN rename_field(field.ident, schema_item.rename_all)
        ELSE field.ident

\* C21: in a struct variant each field's emitted name is its explicit rename,
\* else the variant's rename_all applied to the field name, else the enum's
\* rename_all, else the name unchanged; the variant's rename_all touches only
\* that variant's fields, never the variant's key, which is the variant's
\* rename, else the enum's rename_all applied to the variant name.
C21_VariantRenameAll ==
    Derived_ /\ IsEnumItem /\ ~AllVariantsUnit =>
        \A i \in 1..NumVariants :
            /\ EntryNames(VariantEntry(i)) = {ComputedName(i)}
            /\ IsStructVariant(i) =>
                  /\ PropertyKeys(VariantValue(i).schema) =
                        {ExpectedFieldName(i, schema_item.variants[i].members[k]) :
                            k \in 1..VariantArity(i)}
                  /\ Range(RequiredNames(VariantValue(i).schema))
                        \subseteq PropertyKeys(VariantValue(i).schema)

\* an enum with a rename_all has been derived in which a struct variant with
\* its own rename_all stands next to a struct variant without one, the same
\* field ident coming out differently in the two, and the first variant's key
\* follows the enum's policy
C21_Witness ==
    /\ Derived_ /\ IsEnumItem /\ schema_item.rename_all = "camelCase"
    /\ \E i, j \in 1..NumVariants :
          /\ IsStructVariant(i) /\ IsStructVariant(j)
          /\ schema_item.variants[i].rename_all = "snake_case"
          /\ schema_item.variants[j].rename_all = ""
          /\ NameUserId \in PropertyKeys(VariantValue(i).schema)
          /\ NameUserId \notin PropertyKeys(VariantValue(j).schema)
          /\ schema_item.variants[j].members # <<>>
          /\ schema_item.variants[j].members[1].rename = <<>>
          /\ ComputedName(i) # schema_item.variants[i].ident
          /\ ComputedName(i) # rename_field(schema_item.variants[i].ident, "snake_case")


\* ---- doc comments of the fields of a struct variant ----

\* the emitted schema of the k-th field of the i-th variant, a struct variant
VariantField(i, k) == schema_item.variants[i].members[k]
EmittedField(i, k) ==
    VariantValue(i).schema.properties[1][ExpectedFieldName(i, VariantField(i, k))]
\* no later field of the variant is emitted under the same name
IsLastOfName(i, k) ==
    \A l \in (k + 1)..VariantArity(i) :
        ExpectedFieldName(i, VariantField(i, l)) # ExpectedFieldName(i, VariantField(i, k))
ResolvedType(i, k) == parse_type_to_schema_ref(VariantField(i, k).ty)

\* C22: a struct-variant field with a doc comment has its description on an
\* inline schema; when its type resolves to a $ref the emitted schema is an
\* inline node whose all_of holds exactly that $ref, unchanged, and whose
\* description is the comment; no emitted $ref carries a description and a field
\* without a doc comment keeps its bare $ref.
C22_DocumentedRef ==
    Derived_ /\ IsEnumItem /\ ~AllVariantsUnit =>
        \A i \in 1..NumVariants : IsStructVariant(i) =>
            \A k \in 1..VariantArity(i) : IsLastOfName(i, k) =>
                LET emitted == EmittedField(i, k)
                    doc == VariantField(i, k).doc
                IN  /\ emitted.ref => "description" \notin DOMAIN emitted
                    /\ doc # "" /\ ResolvedType(i, k).ref =>
                          /\ ~emitted.ref
                          /\ emitted.schema.all_of = Some(<<ResolvedType(i, k)>>)
                          /\ emitted.schema.description = Some(doc)
                    /\ doc # "" /\ ~ResolvedType(i, k).ref =>
                          /\ ~emitted.ref
                          /\ emitted.description = Some(doc)
                    /\ doc = "" => emitted = ResolvedType(i, k)

\* a struct variant with a documented $ref field next to an undocumented one
\* has been derived
C22_Witness ==
    /\ Derived_ /\ IsEnumItem /\ ~AllVariantsUnit
    /\ \E i \in 1..NumVariants : IsStructVariant(i) /\
          \E k, l \in 1..VariantArity(i) :
              /\ VariantField(i, k).doc # "" /\ ResolvedType(i, k).ref
              /\ EmittedField(i, k).schema.all_of = Some(<<Ref("User")>>)
              /\ VariantField(i, l).doc = "" /\ EmittedField(i, l) = Ref("User")


----------------------------------------------------------------------------
(* parser/schema/generics.rs: substitution of generic type parameters *)

\* syn::Type forms other than Path and Tuple: t is "Reference" (tag: lifetime
\* and mutability), "Slice", "Array" (tag: length), "BareFn", "TraitObject",
\* "Paren" or "Verbatim"; a generic argument that is no type has t = "Lifetime"
TypeOf(t, tag, elems) == [t |-> t, segments |-> <<>>, elems |-> elems, tag |-> tag]

\* generic_params.iter().position(|p| p == &ident_str), 0 for None
ParamPosition(ident, generic_params) == FirstIndex(LAMBDA p : p = ident, generic_params)

SubstitutesAnyForm(ty) == ty.t # "Path"
\* the forms whose elements substitute_type descends into
SubstitutesElems(ty) == ty.t \in {"Reference", "Slice", "Array", "Tuple"}

SubstituteTopOnly(ty, generic_params, concrete_types) ==
    IF /\ ty.t = "Path" /\ Len(ty.segments) = 1
       /\ ~ty.segments[1].angle /\ ty.segments[1].args = <<>>
       /\ ParamPosition(ty.segments[1].ident, generic_params) \in 1..Len(concrete_types)
    THEN concrete_types[ParamPosition(ty.segments[1].ident, generic_params)]
    ELSE ty
RECURSIVE substitute_type(_, _, _)
substitute_type(ty, generic_params, concrete_types) ==
    IF ty.t = "Path"
    THEN IF ty.segments = <<>> THEN ty
         ELSE IF /\ Len(ty.segments) = 1
                 /\ ~ty.segments[1].angle /\ ty.segments[1].args = <<>>
                 /\ ParamPosition(ty.segments[1].ident, generic_params) \in 1..Len(concrete_types)
         THEN concrete_types[ParamPosition(ty.segments[1].ident, generic_params)]
         ELSE [ty EXCEPT !.segments =
                  [i \in 1..Len(ty.segments) |->
                      IF ty.segments[i].angle
                      THEN [ty.segments[i] EXCEPT !.args =
                              [k \in 1..Len(ty.segments[i].args) |->
                                  substitute_type(ty.segments[i].args[k],
                                                  generic_params, concrete_types)]]
                      ELSE ty.segments[i]]]
    ELSE IF SubstitutesElems(ty)
    THEN [ty EXCEPT !.elems =
             [k \in 1..Len(ty.elems) |->
                 substitute_type(ty.elems[k], generic_params, concrete_types)]]
    ELSE ty

MaxTypeDepth == 2   \* nesting depth of the types handed to substitute_type

TypeLeaves ==
    { Bare("T"), Bare("U"), Bare("i32"),
      TypePath(<<Seg("T", FALSE, <<>>), Seg("Item", FALSE, <<>>)>>),
      TypePath(<<>>) }
\* the types one level above ty
Wrapped(ty) ==
    { Generic(<<>>, "Vec", ty),
      Generic(<<"std", "vec">>, "Vec", ty),
      TypePath(<<Seg("std", FALSE, <<>>), Seg("borrow", FALSE, <<>>),
                 Seg("Cow", TRUE, <<TypeOf("Lifetime", "'static", <<>>), ty>>)>>),
      TypePath(<<Seg("HashMap", TRUE, <<Bare("U"), ty>>)>>),
      TypePath(<<Seg("T", TRUE, <<ty>>)>>),
      TypePath(<<Seg("Fn", FALSE, <<ty>>)>>),
      TypeOf("Reference", "'a mut", <<ty>>),
      TypeOf("Slice", "", <<ty>>),
      TypeOf("Array", "5", <<ty>>),
      TypeTuple(<<ty, Bare("T")>>),
      TypeOf("BareFn", "", <<ty>>),
      TypeOf("TraitObject", "", <<TypePath(<<Seg("Fn", FALSE, <<ty>>)>>)>>),
      TypeOf("Paren", "", <<ty>>) }
RECURSIVE TypesUpTo(_)
TypesUpTo(depth) ==
    IF depth = 0 THEN TypeLeaves
    ELSE TypeLeaves \cup UNION {Wrapped(ty) : ty \in TypesUpTo(depth - 1)}

\* parameter lists with their concrete types: none, one, one replaced by a type
\* that mentions it, two swapped, two with the second concrete type missing,
\* a parameter that does not occur
Substitutions ==
    { << <<>>, <<>> >>,
      << <<>>, <<Bare("String")>> >>,
      << <<"T">>, <<Bare("String")>> >>,
      << <<"T">>, <<Generic(<<>>, "Vec", Bare("T"))>> >>,
      << <<"T", "U">>, <<Bare("U"), Bare("T")>> >>,
      << <<"T", "U">>, <<Bare("String")>> >>,
      << <<"K">>, <<Bare("String")>> >> }

InitSubst ==
    /\ \E ty \in TypesUpTo(MaxTypeDepth), sub \in Substitutions :
          subst_in = [some |-> TRUE, ty |-> ty, generic_params |-> sub[1],
                      concrete_types |-> sub[2]]
    /\ subst_out = <<>>
    /\ registry = [m \in {} |-> NoDef]
    /\ IdleGen /\ IdleGraph /\ IdleRel /\ IdleParam /\ IdleSchema /\ IdleStorage /\ IdlePath

\* substitute_type is applied to the type, then once more to its own result
Substitute ==
    /\ subst_in.some /\ Len(subst_out) < 2
    /\ subst_out' = Append(subst_out,
                           substitute_type(IF subst_out = <<>> THEN subst_in.ty
                                           ELSE subst_out[Len(subst_out)],
                                           subst_in.generic_params, subst_in.concrete_types))
    /\ UNCHANGED <<varsPath, registry, subst_in, varsGen, varsGraph, varsRel, varsParam, varsSchema,
                   varsStorage>>

NextSubst == Substitute

SpecSubst == InitSubst /\ [][NextSubst]_vars


Substituted == subst_in.some /\ subst_out # <<>>

\* a listed type parameter: a path of one segment without arguments
IsTypeParameter(ty) ==
    /\ ty.t = "Path" /\ Len(ty.segments) = 1
    /\ ty.segments[1].args = <<>> /\ ~ty.segments[1].angle
    /\ ty.segments[1].ident \in Range(subst_in.generic_params)
IndexOf(ty) ==
    CHOOSE i \in 1..Len(subst_in.generic_params) :
        subst_in.generic_params[i] = ty.segments[1].ident
\* every occurrence replaced once, in one pass over the original type
RECURSIVE Replaced(_)
Replaced(ty) ==
    CASE IsTypeParameter(ty) ->
            IF IndexOf(ty) <= Len(subst_in.concrete_types)
            THEN subst_in.concrete_types[IndexOf(ty)] ELSE ty
      [] ~IsTypeParameter(ty) /\ ty.t = "Path" ->
            [ty EXCEPT !.segments =
                MapSeq(LAMBDA seg : IF seg.angle
                                    THEN [seg EXCEPT !.args = MapSeq(Replaced, seg.args)]
                                    ELSE seg,
                       ty.segments)]
      [] ty.t \in {"Reference", "Slice", "Array", "Tuple"} ->
            [ty EXCEPT !.elems = MapSeq(Replaced, ty.elems)]
      [] OTHER -> ty

\* C23: substitute_type replaces every occurrence of a listed type parameter by
\* the concrete type at the same index, at any depth inside angle-bracketed
\* arguments, references, slices, arrays and tuples, and changes nothing else;
\* it is one simultaneous pass, an inserted type is not substituted again, and a
\* parameter without a concrete type at its index is left unchanged.
C23_SubstituteEverywhere == Substituted => subst_out[1] = Replaced(subst_in.ty)

\* T := Vec<T> has been substituted inside a reference to an array, and a swap
\* of T and U inside a qualified path
C23_Witness ==
    /\ Substituted
    /\ \/ /\ subst_in.ty = TypeOf("Reference", "'a mut", <<TypeOf("Array", "5", <<Bare("T")>>)>>)
          /\ subst_in.concrete_types = <<Generic(<<>>, "Vec", Bare("T"))>>
          /\ subst_out[1] = TypeOf("Reference", "'a mut",
                                   <<TypeOf("Array", "5", <<Generic(<<>>, "Vec", Bare("T"))>>)>>)
       \/ /\ subst_in.ty = Generic(<<"std", "vec">>, "Vec", TypeTuple(<<Bare("U"), Bare("T")>>))
          /\ subst_in.generic_params = <<"T", "U">> /\ Len(subst_in.concrete_types) = 2
          /\ subst_out[1] = Generic(<<"std", "vec">>, "Vec", TypeTuple(<<Bare("T"), Bare("U")>>))

\* a name occurs in a type when it is the ident of a segment anywhere in it
RECURSIVE Mentions(_, _)
Mentions(ty, names) ==
    \/ \E i \in 1..Len(ty.segments) :
          \/ ty.segments[i].ident \in names
          \/ \E k \in 1..Len(ty.segments[i].args) : Mentions(ty.segments[i].args[k], names)
    \/ \E k \in 1..Len(ty.elems) : Mentions(ty.elems[k], names)
IsNonSubstitutable(ty) == ty.t \notin {"Path", "Reference", "Slice", "Array", "Tuple"}
PassesThrough ==
    \/ subst_in.generic_params = <<>>
    \/ ~Mentions(subst_in.ty, Range(subst_in.generic_params))
    \/ IsNonSubstitutable(subst_in.ty)

\* C24: substitute_type returns a type equal to its input when no listed
\* parameter name occurs in it, when the parameter list is empty, and for every
\* function-pointer, trait-object or other non-substitutable form, even one that
\* mentions a parameter; applying it twice then equals applying it once.
C24_PassThrough ==
    Substituted /\ PassesThrough =>
        /\ subst_out[1] = subst_in.ty
        /\ Len(subst_out) = 2 => subst_out[2] = subst_out[1]

\* a function pointer and a trait object that mention a listed parameter with a
\* concrete type has gone through substitute_type twice
C24_Witness ==
    /\ Substituted /\ Len(subst_out) = 2
    /\ subst_in.ty.t \in {"BareFn", "TraitObject"}
    /\ Mentions(subst_in.ty, {"T"})
    /\ subst_in.generic_params = <<"T">> /\ subst_in.concrete_types # <<>>
    /\ subst_out[2] = subst_in.ty


----------------------------------------------------------------------------
(* Order of the statements of a generated from_model *)

Body == Statements(generated)
KindAt(i) == Body[i].kind
KnownKind(rel) == rel.relation_type \in {"HasOne", "BelongsTo", "HasMany"}
\* the forms of a field initialiser that read the variable of a relation load
ReadsLoad(a) == a.form \in {"OptionMap", "RequiredOrErr", "Collect"}

\* C25: in every generated from_model body the relation loads come first, then
\* the parent-stub definition if any, then the construction of the result;
\* there is exactly one load per relation field of known kind, in relation-field
\* order, single-row for HasOne/BelongsTo and all-rows for HasMany, none for an
\* unknown kind; every loaded variable the construction reads is bound by one
\* of those loads.
C25_StatementOrder ==
    generated.some =>
        /\ \A i, j \in 1..Len(Body) :
              i < j => /\ KindAt(j) = "load" => KindAt(i) = "load"
                       /\ KindAt(i) # "ok"
        /\ KindAt(Len(Body)) = "ok"
        /\ Cardinality({i \in 1..Len(Body) : KindAt(i) = "stub"}) <= 1
        /\ SelectSeq(Body, LAMBDA st : st.kind = "load") =
              MapSeq(LAMBDA rel : [kind |-> "load", var |-> rel.field_name,
                                   how |-> IF rel.relation_type = "HasMany" THEN "all" ELSE "one"],
                     SelectSeq(relation_fields, KnownKind))
        /\ \A k \in 1..Len(generated.assignments) :
              ReadsLoad(generated.assignments[k]) =>
                  \E i \in 1..Len(Body) :
                      KindAt(i) = "load" /\ Body[i].var = generated.assignments[k].source

\* a body with a load, a parent stub and a construction that reads the load has
\* been generated for a struct that also has a relation of unknown kind
C25_Witness ==
    /\ generated.some /\ Len(Body) = 3
    /\ KindAt(1) = "load" /\ KindAt(2) = "stub" /\ KindAt(3) = "ok"
    /\ Len(relation_fields) = 2 /\ \E i \in 1..2 : ~KnownKind(relation_fields[i])
    /\ \E k \in 1..Len(generated.assignments) :
          ReadsLoad(generated.assignments[k]) /\ generated.assignments[k].source = Body[1].var


----------------------------------------------------------------------------
(* The parent stub *)

StubDefined == \E i \in 1..Len(Body) : KindAt(i) = "stub"
\* a field of the target that points back at the expanded struct's module
IsBackReference(f) ==
    /\ "HasMany" \notin Range(f.ty.wrap)
    /\ Range(f.ty.wrap) \cap {"HasOne", "BelongsTo", "Box"} # {}
    /\ f.ty.mod = SourceModule(source_module_path)
    /\ f.ty.leaf \in {"Schema", "Entity", "CapSchema"}
\* a HasOne/BelongsTo field whose named foreign-key field exists and is not Option
IsRequiredRelation(f, def) ==
    /\ Range(f.ty.wrap) \cap {"HasOne", "BelongsTo"} # {}
    /\ f.from # ""
    /\ \E g \in FieldsOf(def) :
          g.name = f.from /\ ~(g.ty.wrap # <<>> /\ Head(g.ty.wrap) = "Option")
NeedsStub(rel) ==
    /\ rel.relation_type = "HasMany" /\ ~rel.inline_type_info.some
    /\ RelatedOf(rel).found
    /\ \E f \in FieldsOf(RelatedOf(rel)) : IsBackReference(f) /\ IsRequiredRelation(f, RelatedOf(rel))

\* C26: a parent stub is generated exactly when some HasMany relation without a
\* projection has a target whose definition is found and holds a required
\* circular back-reference; HasOne/BelongsTo relations, HasMany relations with
\* a projection and targets that are not found give no stub.
C26_StubCondition ==
    generated.some => (StubDefined <=> \E rel \in Rels : NeedsStub(rel))

\* a stub has been generated for a HasMany relation, the target of which has a
\* required BelongsTo back-reference
C26_Witness ==
    /\ generated.some /\ StubDefined
    /\ \E rel \in Rels : NeedsStub(rel)
    /\ \E rel \in Rels : rel.relation_type \in SingleKinds

\* C27: a generated parent stub has exactly one assignment per field mapping;
\* a relation field is an empty list (HasMany), None (HasOne/BelongsTo) or a
\* default, a non-relation field is a copy of the model's field; the stub holds
\* no load result, no nested construction and no reference to itself.
C27_StubFields ==
    generated.some /\ StubDefined =>
        /\ Len(generated.stub) = Len(field_mappings)
        /\ \A k \in 1..Len(field_mappings) :
              LET fm == field_mappings[k]
                  a == generated.stub[k]
                  rels == {rel \in Rels : rel.field_name = fm.source_ident}
              IN  /\ a.name = fm.new_ident
                  /\ a.cons = NoCons
                  /\ ~ReadsLoad(a)
                  /\ ~fm.is_relation => a.form = "Field" /\ a.source = fm.source_ident
                  /\ fm.is_relation =>
                        /\ a.form \in {"EmptyVec", "None", "Default"}
                        /\ \A rel \in rels :
                              /\ rel.relation_type = "HasMany" => a.form = "EmptyVec"
                              /\ rel.relation_type \in SingleKinds => a.form = "None"

\* a stub has been generated that holds an empty list, a None for a required
\* single relation, a default and a copied field
C27_Witness ==
    /\ generated.some /\ StubDefined
    /\ \E rel \in Rels : rel.relation_type \in SingleKinds /\ ~rel.is_optional
    /\ {generated.stub[k].form : k \in 1..Len(generated.stub)} =
          {"EmptyVec", "None", "Default", "Field"}


----------------------------------------------------------------------------
(* Circular fields of a related definition *)

Capitalized == [m \in {"user", "memo", "tag", ""} |->
                  CASE m = "user" -> "User" [] m = "memo" -> "Memo" [] m = "tag" -> "Tag"
                    [] OTHER -> ""]
\* the pieces of the normalised type text: each wrapper with its "<", then the
\* path of the innermost type
TypeText(ty) ==
    {head \o "<" : head \in Range(ty.wrap)}
    \cup {IF ty.mod = "" THEN ty.leaf
          ELSE IF ty.leaf = "CapSchema" THEN Capitalized[ty.mod] \o "Schema"
          ELSE ty.mod \o "::" \o ty.leaf}
ReferencesOf(m) == {m \o "::Schema", m \o "::Entity", Capitalized[m] \o "Schema"}
TextIsCircular(ty, m) ==
    /\ "HasMany<" \notin TypeText(ty)
    /\ TypeText(ty) \cap {"HasOne<", "BelongsTo<", "Box<"} # {}
    /\ TypeText(ty) \cap ReferencesOf(m) # {}
CircularOf(rel) == detect_circular_fields(SourceModule(source_module_path), RelatedOf(rel))

\* C28: detect_circular_fields returns, in declaration order, exactly the named
\* fields of the related definition whose type text contains no HasMany< and
\* contains HasOne<, BelongsTo< or Box< together with a reference to the source
\* module; a missing, empty or unparseable definition yields the empty list,
\* hence no inline construction for a cycle and no stub.
C28_CircularFields ==
    generated.some =>
        \A rel \in Rels :
            /\ CircularOf(rel) =
                  MapSeq(LAMBDA f : f.name,
                         SelectSeq(RelatedOf(rel).fields,
                                   LAMBDA f : TextIsCircular(f.ty, SourceModule(source_module_path))))
            /\ \A k \in 1..Len(RelatedOf(rel).fields) :
                  "HasMany<" \in TypeText(RelatedOf(rel).fields[k].ty)
                      => RelatedOf(rel).fields[k].name \notin Range(CircularOf(rel))
            /\ ~RelatedOf(rel).found =>
                  /\ CircularOf(rel) = <<>>
                  /\ AssignFor(rel).cons.c # "InlineStruct"
                  /\ ~StubDefined

\* the related definition declares a Box-typed and a BelongsTo back-reference,
\* in this order, and both are returned in the order of declaration
C28_Witness ==
    /\ generated.some
    /\ \E rel \in Rels : CircularOf(rel) = <<"memo_box", "memo">>


----------------------------------------------------------------------------
(* relation.rs 114-164: the schema path of a relation's entity path *)

SuperAlwaysOne(segments) == 1
\* segments.iter().take_while(|s| *s == "super").count()
super_count(segments) ==
    IF \E i \in 1..Len(segments) : segments[i] # "super"
    THEN (CHOOSE i \in 1..Len(segments) :
              segments[i] # "super" /\ \A j \in 1..(i - 1) : segments[j] = "super") - 1
    ELSE Len(segments)
saturating_sub(a, b) == IF a >= b THEN a - b ELSE 0

absolute_segments(segments, module_path) ==
    LET to_schema(seg) == IF seg = "Entity" THEN "Schema" ELSE seg
    IN  IF segments # <<>> /\ segments[1] = "super"
        THEN LET parent_path_len == saturating_sub(Len(module_path), super_count(segments))
             IN  SubSeq(module_path, 1, parent_path_len)
                 \o MapSeq(to_schema, SubSeq(segments, super_count(segments) + 1, Len(segments)))
        ELSE IF segments # <<>> /\ segments[1] = "crate"
        THEN MapSeq(to_schema, segments)
        ELSE SubSeq(module_path, 1, saturating_sub(Len(module_path), 1))
             \o MapSeq(to_schema, segments)

MaxPathLen == 3   \* segments of an entity path

EntityPaths ==
    UNION {[1..n -> {"super", "crate", "self", "user", "Entity"}] : n \in 1..MaxPathLen}
ModulePaths ==
    { <<>>, <<"crate">>, <<"crate", "models">>, <<"crate", "models", "memo">>,
      <<"crate", "Entity", "memo">> }

InitPath ==
    /\ \E segments \in EntityPaths, module_path \in ModulePaths :
          entity_path = [some |-> TRUE, segments |-> segments, module_path |-> module_path]
    /\ schema_path_out = <<>>
    /\ registry = [m \in {} |-> NoDef]
    /\ IdleGen /\ IdleGraph /\ IdleRel /\ IdleParam /\ IdleSchema /\ IdleSubst /\ IdleStorage

\* convert_relation_type_to_schema_with_info reaches the path conversion
ResolvePath ==
    /\ entity_path.some /\ schema_path_out = <<>>
    /\ schema_path_out' = <<absolute_segments(entity_path.segments, entity_path.module_path)>>
    /\ UNCHANGED <<registry, entity_path, varsGen, varsGraph, varsRel, varsParam, varsSchema,
                   varsSubst, varsStorage>>

NextPath == ResolvePath

SpecPath == InitPath /\ [][NextPath]_vars

Resolved == entity_path.some /\ schema_path_out # <<>>
LeadingSupers ==
    Cardinality({i \in 1..Len(entity_path.segments) :
                    \A j \in 1..i : entity_path.segments[j] = "super"})
DropLast(path, k) == IF k >= Len(path) THEN <<>> ELSE SubSeq(path, 1, Len(path) - k)
Renamed(path) == [i \in 1..Len(path) |-> IF path[i] = "Entity" THEN "Schema" ELSE path[i]]

\* C29: the schema path of a crate-rooted entity path is the path itself; of a
\* path with k leading super segments, the current module path without its last
\* k segments (without all of them when k exceeds its length) followed by the
\* remaining segments; of any other path, the current module path without its
\* last segment followed by the path; in every case each segment of the entity
\* path named Entity is replaced by Schema and no other segment is changed.
C29_SchemaPath ==
    Resolved =>
        LET segments == entity_path.segments
            k == LeadingSupers
        IN  schema_path_out[1] =
                CASE segments[1] = "crate" -> Renamed(segments)
                  [] segments[1] = "super" ->
                        DropLast(entity_path.module_path, k)
                        \o Renamed(SubSeq(segments, k + 1, Len(segments)))
                  [] OTHER -> DropLast(entity_path.module_path, 1) \o Renamed(segments)

\* super::super::Entity has been resolved in crate::models::memo, or more
\* super segments than the module path has
C29_Witness ==
    /\ Resolved
    /\ \/ /\ entity_path.segments = <<"super", "super", "Entity">>
          /\ entity_path.module_path = <<"crate", "models", "memo">>
          /\ schema_path_out[1] = <<"crate", "Schema">>
       \/ /\ LeadingSupers > Len(entity_path.module_path)
          /\ entity_path.segments[Len(entity_path.segments)] = "Entity"
          /\ schema_path_out[1] = <<"Schema">>


----------------------------------------------------------------------------
(* schema_impl.rs: SCHEMA_STORAGE and the derive expansions that fill it *)

\* Mutex::new(Vec::new())
init_schema_storage == <<>>

\* a syn::Attribute: its path and, for #[schema(name = "...")], the name ("" when
\* the attribute has none)
Attribute(path, name) == [path |-> path, name |-> name]
\* None is ""
extract_schema_name_attr(attrs) ==
    LET i == FirstIndex(LAMBDA attr : attr.path = "schema" /\ attr.name # "", attrs)
    IN  IF i = 0 THEN "" ELSE attrs[i].name

StructMetadata(name, definition) == [name |-> name, definition |-> definition]
ProcessDeriveOwnName(input) == StructMetadata(input.ident, input.ident)
\* the definition text is kept as the ident of the item it was printed from
process_derive_schema(input) ==
    LET schema_name == IF extract_schema_name_attr(input.attrs) # ""
                       THEN extract_schema_name_attr(input.attrs) ELSE input.ident
    IN  StructMetadata(schema_name, input.ident)

MaxExpansions == 2   \* derive expansions that run concurrently

ItemIdents == <<"User", "Status", "Container", "Memo">>
AttributeLists ==
    { <<>>,
      <<Attribute("schema", "")>>,
      <<Attribute("derive", ""), Attribute("schema", "MySchema"), Attribute("serde", "")>>,
      <<Attribute("schema", ""), Attribute("schema", "CustomName")>> }

\* an expansion of #[derive(Schema)], and the reader (vespera!) that runs after
\* the appenders; pc is the statement to execute next
Appender(ident, attrs) ==
    [kind |-> "derive", pc |-> "start", input |-> [ident |-> ident, attrs |-> attrs],
     metadata |-> StructMetadata("", ""), seen |-> <<>>]
Reader ==
    [kind |-> "reader", pc |-> "access", input |-> [ident |-> "", attrs |-> <<>>],
     metadata |-> StructMetadata("", ""), seen |-> <<>>]

InitStorage ==
    /\ storage = [set |-> FALSE, vec |-> <<>>, inits |-> 0]
    /\ lock = 0
    /\ \E n \in 1..MaxExpansions : \E attrs \in [1..n -> AttributeLists] :
          expansions = [i \in 1..n |-> Appender(ItemIdents[i], attrs[i])] \o <<Reader>>
    /\ registry = [m \in {} |-> NoDef]
    /\ IdleGen /\ IdleGraph /\ IdleRel /\ IdleParam /\ IdleSchema /\ IdleSubst /\ IdlePath

AppendersDone ==
    \A i \in 1..Len(expansions) : expansions[i].kind = "derive" => expansions[i].pc = "done"

\* let (metadata, expanded) = process_derive_schema(&input)
DeriveSchema(i) ==
    /\ expansions[i].pc = "start"
    /\ expansions' = [expansions EXCEPT ![i].metadata = process_derive_schema(expansions[i].input),
                                        ![i].pc = "access"]
    /\ UNCHANGED <<registry, storage, lock, varsGen, varsGraph, varsRel, varsParam, varsSchema,
                   varsSubst, varsPath>>

\* first use of SCHEMA_STORAGE: LazyLock runs init_schema_storage unless it has
\* run; the reader is started by the build only after the appenders
Access(i) ==
    /\ expansions[i].pc = "access"
    /\ expansions[i].kind = "reader" => AppendersDone
    /\ storage' = IF storage.set THEN storage
                  ELSE [set |-> TRUE, vec |-> init_schema_storage, inits |-> storage.inits + 1]
    /\ expansions' = [expansions EXCEPT ![i].pc = "lock"]
    /\ UNCHANGED <<registry, lock, varsGen, varsGraph, varsRel, varsParam, varsSchema,
                   varsSubst, varsPath>>

\* SCHEMA_STORAGE.lock().unwrap()
Lock(i) ==
    /\ expansions[i].pc = "lock" /\ lock = 0
    /\ lock' = i
    /\ expansions' = [expansions EXCEPT ![i].pc = IF expansions[i].kind = "derive"
                                                  THEN "push" ELSE "read"]
    /\ UNCHANGED <<registry, storage, varsGen, varsGraph, varsRel, varsParam, varsSchema,
                   varsSubst, varsPath>>

\* guard.push(metadata)
Push(i) ==
    /\ expansions[i].pc = "push"
    /\ storage' = [storage EXCEPT !.vec = Append(storage.vec, expansions[i].metadata)]
    /\ expansions' = [expansions EXCEPT ![i].pc = "unlock"]
    /\ UNCHANGED <<registry, lock, varsGen, varsGraph, varsRel, varsParam, varsSchema,
                   varsSubst, varsPath>>

\* the reader clones the Vec under the guard
Read(i) ==
    /\ expansions[i].pc = "read"
    /\ expansions' = [expansions EXCEPT ![i].seen = storage.vec, ![i].pc = "unlock"]
    /\ UNCHANGED <<registry, storage, lock, varsGen, varsGraph, varsRel, varsParam, varsSchema,
                   varsSubst, varsPath>>

\* the guard is dropped
Unlock(i) ==
    /\ expansions[i].pc = "unlock"
    /\ lock' = 0
    /\ expansions' = [expansions EXCEPT ![i].pc = "done"]
    /\ UNCHANGED <<registry, storage, varsGen, varsGraph, varsRel, varsParam, varsSchema,
                   varsSubst, varsPath>>

NextStorage ==
    \E i \in 1..Len(expansions) :
        DeriveSchema(i) \/ Access(i) \/ Lock(i) \/ Push(i) \/ Read(i) \/ Unlock(i)

SpecStorage == InitStorage /\ [][NextStorage]_vars


----------------------------------------------------------------------------
(* C30: the process-wide schema registry *)

Appenders == {i \in 1..Len(expansions) : expansions[i].kind = "derive"}
Appended == {i \in Appenders : expansions[i].pc \in {"unlock", "done"}}
Overrides(input) ==
    {k \in 1..Len(input.attrs) : input.attrs[k].path = "schema" /\ input.attrs[k].name # ""}
RegisteredName(input) ==
    IF Overrides(input) = {} THEN input.ident
    ELSE input.attrs[CHOOSE k \in Overrides(input) : \A l \in Overrides(input) : k <= l].name
\* vec holds exactly one entry for each expansion of the set, under its name
OnePerExpansion(vec, done) ==
    /\ Len(vec) = Cardinality(done)
    /\ \A i \in done :
          Cardinality({k \in 1..Len(vec) : vec[k].definition = expansions[i].input.ident}) = 1
    /\ \A k \in 1..Len(vec) : \E i \in done :
          /\ vec[k].definition = expansions[i].input.ident
          /\ vec[k].name = RegisteredName(expansions[i].input)
AppendStep ==
    /\ (~storage.set /\ storage'.set) => storage'.vec = <<>>
    /\ storage'.inits >= storage.inits
    /\ storage'.vec # storage.vec =>
          /\ lock \in Appenders /\ lock' = lock
          /\ storage'.vec = Append(storage.vec, expansions[lock].metadata)
          /\ \A i \in 1..Len(expansions) : i # lock => expansions'[i] = expansions[i]

\* C30: SCHEMA_STORAGE is initialised once, to the empty Vec, by its first access;
\* in every interleaving of the derive expansions an append is made by the holder
\* of the mutex, so the Vec always holds exactly one StructMetadata for each
\* expansion that has appended, and a reader that runs after the appenders sees
\* one StructMetadata per expansion, named by #[schema(name = "...")] when the
\* item has one and by the item's ident otherwise.
C30_SchemaStorage ==
    /\ [](/\ storage.inits = (IF storage.set THEN 1 ELSE 0)
          /\ OnePerExpansion(storage.vec, Appended)
          /\ \A i \in 1..Len(expansions) :
                (expansions[i].kind = "reader" /\ expansions[i].pc \in {"unlock", "done"})
                    => OnePerExpansion(expansions[i].seen, Appenders))
    /\ [][AppendStep]_vars
C30_Witness ==
    \E r \in 1..Len(expansions) :
        /\ expansions[r].kind = "reader" /\ expansions[r].pc = "done"
        /\ Len(expansions[r].seen) >= 2
        /\ expansions[r].seen[1].definition = "Status"
        /\ \E k \in 1..Len(expansions[r].seen) :
              expansions[r].seen[k].name = "CustomName"
        /\ \E k \in 1..Len(expansions[r].seen) :
              expansions[r].seen[k].name = expansions[r].seen[k].definition

====
